---- MODULE Spec2Model ----
(***************************************************************************)
(* School-savings backend (tabungan-sekolah-smp): the entity store with    *)
(* its foreign keys, the handlers that write the ledger and move students  *)
(* and classes, and the balance and leaderboard handlers that read it.     *)
(*                                                                         *)
(* Currency.  The store keeps amounts as numeric(12,2); the model keeps a  *)
(* stored amount as an integer number of cents, and SQL SUM works on these *)
(* exactly.  An amount that enters a handler is a JavaScript number; the   *)
(* model writes it in thousandths (mills), so that the store's rounding to *)
(* two decimals is a real conversion.  A number a handler returns is an    *)
(* IEEE-754 double.  A double near c/100 is written <<c, d>>: its exact    *)
(* value is c/100 + d * 2^-59 / 100, so <<c, 0>> is the decimal c/100      *)
(* itself and d says how far the double is from it.  Every double of       *)
(* magnitude at least 0.01 is a multiple of 2^-59, which is what lets d be *)
(* a (small) integer.                                                      *)
(*                                                                         *)
(* Time.  now is the clock that new Date() and the store's defaultNow()    *)
(* read; a date is a day number.                                           *)
(*                                                                         *)
(* Calls.  resp is the reply of the one call of a sequential client (Idle  *)
(* between calls).  inflight holds the calls of two concurrent clients,    *)
(* statement by statement; it is empty where calls are made one at a time. *)
(*                                                                         *)
(* Columns that no modelled handler reads or constrains (created_at,       *)
(* gender, the student's contact and bank fields, the teacher's role, the  *)
(* school's address and email) are left out of the rows.                   *)
(***************************************************************************)
EXTENDS Integers, Sequences, FiniteSets, TLC

VARIABLES schools, teachers, classes, students, transactions, aspirations,
          nextId, now, resp, inflight

vars == <<schools, teachers, classes, students, transactions, aspirations,
          nextId, now, resp, inflight>>
store == <<schools, teachers, classes, students, transactions, aspirations, nextId>>

----------------------------------------------------------------------------
(* Bounds of the model *)

MaxTransactions == 2
MaxLedger == 2
MaxLimit == 1
MaxQueried == 2
MaxClock == 3
MaxRows == 2
MaxCreated == 3

(* Inputs *)
Statuses == {"active", "graduated", "transferred"}
Types == {"deposit", "withdrawal"}
AmountInputs == {100, 300}

(* An absent (undefined or NULL) value is the empty set, a present one *)
(* the singleton of its value.                                          *)
NULL == {}
Some(x) == {x}
Val(o) == CHOOSE x \in o : TRUE
Opt(S) == {NULL} \cup {Some(x) : x \in S}
(* JavaScript's truthiness of an optional number: undefined and 0 are falsy *)
Truthy(o) == o # NULL /\ Val(o) # 0

(* ids a caller may pass: every id the table can hold and one beyond *)
TeacherIdArgs == {1, 2}
ClassIdArgs == {1, 2, 3}
StudentIdArgs == {1, 2, 3}
TransactionIdArgs == 1..(MaxLedger + 1)

----------------------------------------------------------------------------
(* Numbers *)

RECURSIVE Pow2(_)
Pow2(k) == IF k = 0 THEN 1 ELSE 2 * Pow2(k - 1)

RECURSIVE Pow2Mod(_, _)
Pow2Mod(k, m) == IF k = 0 THEN 1 % m ELSE (2 * Pow2Mod(k - 1, m)) % m

(* The exponent class of c/100 for c > 0: the s with                  *)
(* 2^(s-7) <= c/100 < 2^(s-6); doubles there are 2^(s-59) apart.      *)
RECURSIVE ExpClassFrom(_, _)
ExpClassFrom(c, s) ==
    IF 25 * Pow2(s + 1) <= 32 * c THEN ExpClassFrom(c, s + 1) ELSE s

ExpClass(c) == ExpClassFrom(c, 0)

(* Round the exact value c/100 + d * 2^-59 / 100, c > 0, to the nearest *)
(* double, ties to even; the result is the d of the double.             *)
RoundAbs(c, d) ==
    LET s0 == ExpClass(c)
        s == IF 32 * c = 25 * Pow2(s0) /\ d < 0 THEN s0 - 1 ELSE s0
        g == 100 * Pow2(s)
        r == ((c % 100) * Pow2Mod(59 - s, 100)) % 100
        r2 == ((c % 200) * Pow2Mod(59 - s, 200)) % 200
        rem == (Pow2(s) * r + d) % g
        tot == (Pow2(s) * r2 + d) % (2 * g)
    IN  IF 2 * rem < g THEN d - rem
        ELSE IF 2 * rem > g THEN d - rem + g
        ELSE IF 2 * tot = g THEN d - rem
        ELSE d - rem + g

RoundDouble(c, d) ==
    IF c = 0 THEN <<0, d>>
    ELSE IF c > 0 THEN <<c, RoundAbs(c, d)>>
    ELSE <<c, 0 - RoundAbs(0 - c, 0 - d)>>

(* parseFloat of a numeric(12,2) string of c cents: the double nearest *)
(* to c/100                                                            *)
ParseFloat(c) == RoundDouble(c, 0)

(* JavaScript's x - y on doubles *)
FSub(x, y) == RoundDouble(x[1] - y[1], x[2] - y[2])

(* x <= y on doubles *)
FLeq(x, y) == x[1] < y[1] \/ (x[1] = y[1] /\ x[2] <= y[2])

(* number.toString() read by a numeric(12,2) column: a positive amount *)
(* in mills rounded to cents, halves away from zero                     *)
ToNumeric(mills) == (mills + 5) \div 10

----------------------------------------------------------------------------
(* The store *)

NoError == [kind |-> "none", entity |-> "", id |-> 0]
NotFound(entity, id) == [kind |-> "not_found", entity |-> entity, id |-> id]
(* an error the store raises: a foreign-key violation on `entity` *)
ForeignKey(entity, id) == [kind |-> "foreign_key", entity |-> entity, id |-> id]
StoreError(what) == [kind |-> what, entity |-> "", id |-> 0]

Reply(op, args, error, num, rows) ==
    [op |-> op, args |-> args, error |-> error, num |-> num, rows |-> rows]

Ok(op, args) == Reply(op, args, NoError, NULL, <<>>)
Fail(op, args, error) == Reply(op, args, error, NULL, <<>>)

TransactionsOf(sid) == {t \in DOMAIN transactions : transactions[t].student_id = sid}

(* the rows of a table whose unique column f holds v *)
(* a table without unique index *)
TakenByNone(table, f, v) == {}

TakenBy(table, f, v) == {i \in DOMAIN table : table[i][f] = v}

----------------------------------------------------------------------------
(* transaction_handlers.ts *)

RECURSIVE SumAmounts(_)
SumAmounts(T) ==
    IF T = {} THEN 0
    ELSE LET t == CHOOSE x \in T : TRUE
         IN  transactions[t].amount + SumAmounts(T \ {t})

(* SQL sum(amount) over the rows T: NULL when there is no row *)
SqlSum(T) == IF T = {} THEN NULL ELSE Some(SumAmounts(T))

(* a stored row as the handlers return it: { ...row, amount: parseFloat } *)
Returned(id, row) ==
    [id |-> id, date |-> row.date, type |-> row.type,
     amount |-> ParseFloat(row.amount), notes |-> row.notes,
     student_id |-> row.student_id, updated_at |-> row.updated_at]

(* a variant that refuses a withdrawal above the student's stored balance *)
createTransactionWithinBalance(input) ==
    LET op == "createTransaction"
        id == nextId.transactions
        row == [date |-> input.date,
                type |-> input.type,
                amount |-> ToNumeric(input.amount),
                notes |-> input.notes,
                student_id |-> input.student_id,
                updated_at |-> now]
        balance == SumAmounts({t \in TransactionsOf(input.student_id) :
                                  transactions[t].type = "deposit"})
                   - SumAmounts({t \in TransactionsOf(input.student_id) :
                                    transactions[t].type = "withdrawal"})
    IN  IF input.student_id \notin DOMAIN students
        THEN /\ resp' = Fail(op, input, NotFound("Student", input.student_id))
             /\ UNCHANGED <<store, now, inflight>>
        ELSE IF input.type = "withdrawal" /\ row.amount > balance
        THEN /\ resp' = Fail(op, input, StoreError("insufficient_balance"))
             /\ UNCHANGED <<store, now, inflight>>
        ELSE /\ transactions' = transactions @@ (id :> row)
             /\ nextId' = [nextId EXCEPT !.transactions = id + 1]
             /\ resp' = Reply(op, input, NoError, NULL, <<Returned(id, row)>>)
             /\ UNCHANGED <<schools, teachers, classes, students, aspirations, now, inflight>>

(* a variant that inserts without looking the student up, so that an *)
(* unknown student is the store's foreign-key violation              *)
createTransactionUnchecked(input) ==
    LET op == "createTransaction"
        id == nextId.transactions
        row == [date |-> input.date,
                type |-> input.type,
                amount |-> ToNumeric(input.amount),
                notes |-> input.notes,
                student_id |-> input.student_id,
                updated_at |-> now]
    IN  /\ nextId' = [nextId EXCEPT !.transactions = id + 1]
        /\ IF input.student_id \in DOMAIN students
           THEN /\ transactions' = transactions @@ (id :> row)
                /\ resp' = Reply(op, input, NoError, NULL, <<Returned(id, row)>>)
           ELSE /\ resp' = Fail(op, input, ForeignKey("transactions", input.student_id))
                /\ UNCHANGED transactions
        /\ UNCHANGED <<schools, teachers, classes, students, aspirations, now, inflight>>

createTransaction(input) ==
    LET op == "createTransaction" IN
    IF input.student_id \notin DOMAIN students
    THEN /\ resp' = Fail(op, input, NotFound("Student", input.student_id))
         /\ UNCHANGED <<store, now, inflight>>
    ELSE LET id == nextId.transactions
             row == [date |-> input.date,
                     type |-> input.type,
                     amount |-> ToNumeric(input.amount),
                     notes |-> input.notes,
                     student_id |-> input.student_id,
                     updated_at |-> now]
         IN  /\ transactions' = transactions @@ (id :> row)
             /\ nextId' = [nextId EXCEPT !.transactions = id + 1]
             /\ resp' = Reply(op, input, NoError, NULL, <<Returned(id, row)>>)
             /\ UNCHANGED <<schools, teachers, classes, students, aspirations, now, inflight>>

(* the fields of an update input that are not undefined *)
Supplied(input) == {f \in DOMAIN input : f # "id" /\ input[f] # NULL}

updateTransaction(input) ==
    LET op == "updateTransaction" IN
    IF input.id \notin DOMAIN transactions
    THEN /\ resp' = Fail(op, input, NotFound("Transaction", input.id))
         /\ UNCHANGED <<store, now, inflight>>
    ELSE IF /\ Truthy(input.student_id)
            /\ Val(input.student_id) # transactions[input.id].student_id
            /\ Val(input.student_id) \notin DOMAIN students
    THEN /\ resp' = Fail(op, input, NotFound("Student", Val(input.student_id)))
         /\ UNCHANGED <<store, now, inflight>>
    ELSE IF Supplied(input) = {}
    THEN /\ resp' = Fail(op, input, StoreError("no_values_to_set"))
         /\ UNCHANGED <<store, now, inflight>>
    ELSE IF input.student_id # NULL /\ Val(input.student_id) \notin DOMAIN students
    THEN /\ resp' = Fail(op, input, ForeignKey("transactions", Val(input.student_id)))
         /\ UNCHANGED <<store, now, inflight>>
    ELSE LET old == transactions[input.id]
             row == [date |-> IF input.date # NULL THEN Val(input.date) ELSE old.date,
                     type |-> IF input.type # NULL THEN Val(input.type) ELSE old.type,
                     amount |-> IF input.amount # NULL
                                THEN ToNumeric(Val(input.amount)) ELSE old.amount,
                     notes |-> IF input.notes # NULL THEN Val(input.notes) ELSE old.notes,
                     student_id |-> IF input.student_id # NULL
                                    THEN Val(input.student_id) ELSE old.student_id,
                     updated_at |-> old.updated_at]
         IN  /\ transactions' = [transactions EXCEPT ![input.id] = row]
             /\ resp' = Reply(op, input, NoError, NULL, <<Returned(input.id, row)>>)
             /\ UNCHANGED <<schools, teachers, classes, students, aspirations, nextId, now, inflight>>

deleteTransaction(id) ==
    LET op == "deleteTransaction" IN
    IF id \notin DOMAIN transactions
    THEN /\ resp' = Fail(op, [id |-> id], NotFound("Transaction", id))
         /\ UNCHANGED <<store, now, inflight>>
    ELSE /\ transactions' = [t \in DOMAIN transactions \ {id} |-> transactions[t]]
         /\ resp' = Ok(op, [id |-> id])
         /\ UNCHANGED <<schools, teachers, classes, students, aspirations, nextId, now, inflight>>

getTransaction(id) ==
    /\ resp' = Reply("getTransaction", [id |-> id], NoError, NULL,
                     IF id \in DOMAIN transactions
                     THEN <<Returned(id, transactions[id])>> ELSE <<>>)
    /\ UNCHANGED <<store, now, inflight>>

(* the orders in which the store may return the rows R of a query *)
(* without ORDER BY                                               *)
AnyOrder(R) ==
    {q \in [1..Cardinality(R) -> R] :
        \A i, j \in 1..Cardinality(R) : i # j => q[i] # q[j]}

(* transactions INNER JOIN students *)
TransactionStudents ==
    {r \in [t : DOMAIN transactions, s : DOMAIN students] :
        transactions[r.t].student_id = r.s}

(* transactions INNER JOIN students, with every class *)
TransactionStudentAnyClass ==
    {r \in [t : DOMAIN transactions, s : DOMAIN students, c : DOMAIN classes] :
        transactions[r.t].student_id = r.s}

(* transactions INNER JOIN students INNER JOIN classes *)
TransactionStudentClasses ==
    {r \in [t : DOMAIN transactions, s : DOMAIN students, c : DOMAIN classes] :
        transactions[r.t].student_id = r.s /\ students[r.s].class_id = r.c}

(* the conditions a filter pushes, on a transaction t: a field counts *)
(* when it is truthy                                                  *)
StudentCondition(t, filter) ==
    Truthy(filter.student_id) => transactions[t].student_id = Val(filter.student_id)
DateConditions(t, filter) ==
    /\ filter.start_date # NULL => transactions[t].date >= Val(filter.start_date)
    /\ filter.end_date # NULL => transactions[t].date <= Val(filter.end_date)
TypeCondition(t, filter) ==
    filter.type # NULL => transactions[t].type = Val(filter.type)

TransactionsResults(filter) ==
    LET selected ==
            IF Truthy(filter.class_id)
            THEN {r.t : r \in {x \in TransactionStudents :
                                  students[x.s].class_id = Val(filter.class_id)}}
            ELSE DOMAIN transactions
        matching == {t \in selected : /\ StudentCondition(t, filter)
                                      /\ DateConditions(t, filter)
                                      /\ TypeCondition(t, filter)}
    IN  AnyOrder({Returned(t, transactions[t]) : t \in matching})

getTransactions(filter) ==
    /\ \E rows \in TransactionsResults(filter) :
          resp' = Reply("getTransactions", filter, NoError, NULL, rows)
    /\ UNCHANGED <<store, now, inflight>>

(* the results the store may give for the transactions of a student *)
TransactionsByStudentResults(studentId) ==
    AnyOrder({Returned(t, transactions[t]) : t \in TransactionsOf(studentId)})

getTransactionsByStudent(studentId) ==
    /\ \E rows \in TransactionsByStudentResults(studentId) :
          resp' = Reply("getTransactionsByStudent", [id |-> studentId], NoError, NULL, rows)
    /\ UNCHANGED <<store, now, inflight>>

getTransactionsByClass(classId) ==
    /\ \E rows \in AnyOrder({Returned(r.t, transactions[r.t]) :
                               r \in {x \in TransactionStudents :
                                         students[x.s].class_id = classId}}) :
          resp' = Reply("getTransactionsByClass", [id |-> classId], NoError, NULL, rows)
    /\ UNCHANGED <<store, now, inflight>>

(* a variant that looks the teacher's class up first and fails without one *)
getTransactionsByTeacherOrFail(teacherId) ==
    /\ resp' = IF \E c \in DOMAIN classes :
                     classes[c].homeroom_teacher_id = Some(teacherId)
               THEN Reply("getTransactionsByTeacher", [id |-> teacherId], NoError, NULL,
                          CHOOSE q \in AnyOrder(
                              {Returned(r.t, transactions[r.t]) :
                                 r \in {x \in TransactionStudentClasses :
                                           classes[x.c].homeroom_teacher_id
                                              = Some(teacherId)}}) : TRUE)
               ELSE Fail("getTransactionsByTeacher", [id |-> teacherId],
                         NotFound("Class", teacherId))
    /\ UNCHANGED <<store, now, inflight>>

getTransactionsByTeacher(teacherId) ==
    /\ \E rows \in AnyOrder({Returned(r.t, transactions[r.t]) :
                               r \in {x \in TransactionStudentClasses :
                                         classes[x.c].homeroom_teacher_id
                                            = Some(teacherId)}}) :
          resp' = Reply("getTransactionsByTeacher", [id |-> teacherId],
                        NoError, NULL, rows)
    /\ UNCHANGED <<store, now, inflight>>

ReportRow(r) ==
    [transaction_id |-> r.t,
     date |-> transactions[r.t].date,
     type |-> transactions[r.t].type,
     amount |-> ParseFloat(transactions[r.t].amount),
     notes |-> transactions[r.t].notes,
     student_name |-> students[r.s].name,
     class_name |-> classes[r.c].name]

TransactionReportResults(filter) ==
    LET matching ==
            {r \in TransactionStudentClasses :
                /\ StudentCondition(r.t, filter)
                /\ Truthy(filter.class_id) =>
                      students[r.s].class_id = Val(filter.class_id)
                /\ DateConditions(r.t, filter)
                /\ TypeCondition(r.t, filter)}
    IN  AnyOrder({ReportRow(r) : r \in matching})

getTransactionReport(filter) ==
    /\ \E rows \in TransactionReportResults(filter) :
          resp' = Reply("getTransactionReport", filter, NoError, NULL, rows)
    /\ UNCHANGED <<store, now, inflight>>

(* the number getStudentBalance returns for an existing student *)
StudentBalance(studentId) ==
    LET deposits == SqlSum({t \in TransactionsOf(studentId) :
                               transactions[t].type = "deposit"})
        withdrawals == SqlSum({t \in TransactionsOf(studentId) :
                                  transactions[t].type = "withdrawal"})
        totalDeposits == IF deposits # NULL THEN ParseFloat(Val(deposits))
                         ELSE ParseFloat(0)
        totalWithdrawals == IF withdrawals # NULL THEN ParseFloat(Val(withdrawals))
                            ELSE ParseFloat(0)
    IN  FSub(totalDeposits, totalWithdrawals)

(* a lookup that answers 0 for a student it does not find *)
getStudentBalanceOrZero(studentId) ==
    LET op == "getStudentBalance" IN
    /\ resp' = IF studentId \notin DOMAIN students
               THEN Reply(op, [id |-> studentId], NoError, Some(ParseFloat(0)), <<>>)
               ELSE Reply(op, [id |-> studentId], NoError,
                          Some(StudentBalance(studentId)), <<>>)
    /\ UNCHANGED <<store, now, inflight>>

getStudentBalance(studentId) ==
    LET op == "getStudentBalance" IN
    /\ resp' = IF studentId \notin DOMAIN students
               THEN Fail(op, [id |-> studentId], NotFound("Student", studentId))
               ELSE Reply(op, [id |-> studentId], NoError,
                          Some(StudentBalance(studentId)), <<>>)
    /\ UNCHANGED <<store, now, inflight>>

----------------------------------------------------------------------------
(* class_handlers.ts, student_handlers.ts *)

(* a variant that takes null for "not supplied" *)
SetUnlessNull(old, given) ==
    IF given # NULL /\ Val(given) # NULL THEN Val(given) ELSE old

(* `if (input.f !== undefined) updateData.f = input.f` for a nullable *)
(* column: null is written as null                                    *)
SetNullable(old, given) == IF given # NULL THEN Val(given) ELSE old

(* a students table without the reference to classes *)
NoStudentsOf(cid) == {}

StudentsOf(cid) == {s \in DOMAIN students : students[s].class_id = cid}

(* homeroom_teacher_id of an update input: undefined is NULL, null is *)
(* Some(NULL), a teacher id t is Some(Some(t))                        *)
updateClass(input) ==
    LET op == "updateClass" IN
    IF input.id \notin DOMAIN classes
    THEN /\ resp' = Fail(op, input, NotFound("Class", input.id))
         /\ UNCHANGED <<store, now, inflight>>
    ELSE IF /\ input.homeroom_teacher_id # NULL
            /\ Val(input.homeroom_teacher_id) # NULL
            /\ Val(Val(input.homeroom_teacher_id)) \notin DOMAIN teachers
    THEN /\ resp' = Fail(op, input,
                         NotFound("Teacher", Val(Val(input.homeroom_teacher_id))))
         /\ UNCHANGED <<store, now, inflight>>
    ELSE LET old == classes[input.id]
             row == [name |-> IF input.name # NULL THEN Val(input.name) ELSE old.name,
                     homeroom_teacher_id |->
                         SetNullable(old.homeroom_teacher_id,
                                     input.homeroom_teacher_id),
                     updated_at |-> now]
         IN  /\ classes' = [classes EXCEPT ![input.id] = row]
             /\ resp' = Reply(op, input, NoError, NULL, <<[id |-> input.id] @@ row>>)
             /\ UNCHANGED <<schools, teachers, students, transactions, aspirations, nextId, now, inflight>>

updateStudent(input) ==
    LET op == "updateStudent" IN
    IF input.id \notin DOMAIN students
    THEN /\ resp' = Fail(op, input, NotFound("Student", input.id))
         /\ UNCHANGED <<store, now, inflight>>
    ELSE IF \E f \in {"nisn", "nis"} :
               input[f] # NULL /\ TakenBy(students, f, Val(input[f])) \ {input.id} # {}
    THEN /\ resp' = Fail(op, input, StoreError("unique"))
         /\ UNCHANGED <<store, now, inflight>>
    ELSE IF input.class_id # NULL /\ Val(input.class_id) \notin DOMAIN classes
    THEN /\ resp' = Fail(op, input, ForeignKey("students", Val(input.class_id)))
         /\ UNCHANGED <<store, now, inflight>>
    ELSE LET old == students[input.id]
             row == [name |-> IF input.name # NULL THEN Val(input.name) ELSE old.name,
                     nisn |-> IF input.nisn # NULL THEN Val(input.nisn) ELSE old.nisn,
                     nis |-> IF input.nis # NULL THEN Val(input.nis) ELSE old.nis,
                     class_id |-> IF input.class_id # NULL
                                  THEN Val(input.class_id) ELSE old.class_id,
                     status |-> IF input.status # NULL
                                THEN Val(input.status) ELSE old.status,
                     updated_at |-> now]
         IN  /\ students' = [students EXCEPT ![input.id] = row]
             /\ resp' = Reply(op, input, NoError, NULL, <<[id |-> input.id] @@ row>>)
             /\ UNCHANGED <<schools, teachers, classes, transactions, aspirations, nextId, now, inflight>>

getClass(id) ==
    /\ resp' = Reply("getClass", [id |-> id], NoError, NULL,
                     IF id \in DOMAIN classes
                     THEN <<[id |-> id] @@ classes[id]>> ELSE <<>>)
    /\ UNCHANGED <<store, now, inflight>>

(* createClass looks the teacher up only when the id is truthy; the   *)
(* store's foreign key rejects any other unknown id, after the serial *)
(* has handed out the class id.                                       *)
createClass(input) ==
    LET op == "createClass" IN
    IF Truthy(input.homeroom_teacher_id)
       /\ Val(input.homeroom_teacher_id) \notin DOMAIN teachers
    THEN /\ resp' = Fail(op, input, NotFound("Teacher", Val(input.homeroom_teacher_id)))
         /\ UNCHANGED <<store, now, inflight>>
    ELSE LET id == nextId.classes
             row == [name |-> input.name,
                     homeroom_teacher_id |-> input.homeroom_teacher_id,
                     updated_at |-> now]
         IN  /\ nextId' = [nextId EXCEPT !.classes = id + 1]
             /\ IF input.homeroom_teacher_id # NULL
                   /\ Val(input.homeroom_teacher_id) \notin DOMAIN teachers
                THEN /\ resp' = Fail(op, input,
                                     ForeignKey("classes", Val(input.homeroom_teacher_id)))
                     /\ UNCHANGED classes
                ELSE /\ classes' = classes @@ (id :> row)
                     /\ resp' = Reply(op, input, NoError, NULL, <<[id |-> id] @@ row>>)
             /\ UNCHANGED <<schools, teachers, students, transactions, aspirations, now, inflight>>

deleteClass(id) ==
    LET op == "deleteClass" IN
    IF id \notin DOMAIN classes
    THEN /\ resp' = Fail(op, [id |-> id], NotFound("Class", id))
         /\ UNCHANGED <<store, now, inflight>>
    ELSE IF StudentsOf(id) # {}
    THEN /\ resp' = Fail(op, [id |-> id], ForeignKey("students", id))
         /\ UNCHANGED <<store, now, inflight>>
    ELSE /\ classes' = [c \in DOMAIN classes \ {id} |-> classes[c]]
         /\ resp' = Ok(op, [id |-> id])
         /\ UNCHANGED <<schools, teachers, students, transactions, aspirations,
                        nextId, now, inflight>>

getStudent(id) ==
    /\ resp' = Reply("getStudent", [id |-> id], NoError, NULL,
                     IF id \in DOMAIN students
                     THEN <<[id |-> id] @@ students[id]>> ELSE <<>>)
    /\ UNCHANGED <<store, now, inflight>>

(* createStudent inserts without a lookup of the class: the store's    *)
(* unique indexes and foreign key are what reject the row, after the   *)
(* serial has handed out the id.                                       *)
createStudent(input) ==
    LET op == "createStudent"
        id == nextId.students
        row == [name |-> input.name, nisn |-> input.nisn, nis |-> input.nis,
                class_id |-> input.class_id, status |-> input.status,
                updated_at |-> now]
    IN  /\ nextId' = [nextId EXCEPT !.students = id + 1]
        /\ IF \E f \in {"nisn", "nis"} : TakenBy(students, f, input[f]) # {}
           THEN /\ resp' = Fail(op, input, StoreError("unique"))
                /\ UNCHANGED students
           ELSE IF input.class_id \notin DOMAIN classes
           THEN /\ resp' = Fail(op, input, ForeignKey("students", input.class_id))
                /\ UNCHANGED students
           ELSE /\ students' = students @@ (id :> row)
                /\ resp' = Reply(op, input, NoError, NULL, <<[id |-> id] @@ row>>)
        /\ UNCHANGED <<schools, teachers, classes, transactions, aspirations, now, inflight>>

AspirationsOf(sid) == {a \in DOMAIN aspirations : aspirations[a].student_id = sid}

(* a variant that deletes without asking how many rows were deleted *)
deleteStudentQuietly(id) ==
    LET op == "deleteStudent" IN
    IF TransactionsOf(id) # {} \/ AspirationsOf(id) # {}
    THEN /\ resp' = Fail(op, [id |-> id], ForeignKey("transactions", id))
         /\ UNCHANGED <<store, now, inflight>>
    ELSE /\ students' = [x \in DOMAIN students \ {id} |-> students[x]]
         /\ resp' = Ok(op, [id |-> id])
         /\ UNCHANGED <<schools, teachers, classes, transactions, aspirations,
                        nextId, now, inflight>>

deleteStudent(id) ==
    LET op == "deleteStudent" IN
    IF id \notin DOMAIN students
    THEN /\ resp' = Fail(op, [id |-> id], NotFound("Student", id))
         /\ UNCHANGED <<store, now, inflight>>
    ELSE IF TransactionsOf(id) # {} \/ AspirationsOf(id) # {}
    THEN /\ \E referencing \in
                 {e \in {"transactions", "student_aspirations"} :
                     \/ e = "transactions" /\ TransactionsOf(id) # {}
                     \/ e = "student_aspirations" /\ AspirationsOf(id) # {}} :
               resp' = Fail(op, [id |-> id], ForeignKey(referencing, id))
         /\ UNCHANGED <<store, now, inflight>>
    ELSE /\ students' = [x \in DOMAIN students \ {id} |-> students[x]]
         /\ resp' = Ok(op, [id |-> id])
         /\ UNCHANGED <<schools, teachers, classes, transactions, aspirations,
                        nextId, now, inflight>>

getClassesByTeacher(teacherId) ==
    LET op == "getClassesByTeacher" IN
    /\ IF teacherId \notin DOMAIN teachers
       THEN resp' = Fail(op, [id |-> teacherId], NotFound("Teacher", teacherId))
       ELSE \E rows \in AnyOrder({[id |-> c] @@ classes[c] :
                                    c \in {x \in DOMAIN classes :
                                             classes[x].homeroom_teacher_id
                                                = Some(teacherId)}}) :
               resp' = Reply(op, [id |-> teacherId], NoError, NULL, rows)
    /\ UNCHANGED <<store, now, inflight>>

----------------------------------------------------------------------------
(* teacher_handlers.ts *)

(* a classes table without the reference to teachers *)
NoClassesOf(tid) == {}

(* the classes whose foreign key refers to the teacher *)
ClassesOf(tid) == {c \in DOMAIN classes : classes[c].homeroom_teacher_id = Some(tid)}

createTeacher(input) ==
    LET op == "createTeacher"
        id == nextId.teachers
        row == [name |-> input.name, email |-> input.email, updated_at |-> now]
    IN  /\ nextId' = [nextId EXCEPT !.teachers = id + 1]
        /\ IF TakenBy(teachers, "email", input.email) # {}
           THEN /\ resp' = Fail(op, input, StoreError("unique"))
                /\ UNCHANGED teachers
           ELSE /\ teachers' = teachers @@ (id :> row)
                /\ resp' = Reply(op, input, NoError, NULL, <<[id |-> id] @@ row>>)
        /\ UNCHANGED <<schools, classes, students, transactions, aspirations, now, inflight>>

getTeacher(id) ==
    /\ resp' = Reply("getTeacher", [id |-> id], NoError, NULL,
                     IF id \in DOMAIN teachers
                     THEN <<[id |-> id] @@ teachers[id]>> ELSE <<>>)
    /\ UNCHANGED <<store, now, inflight>>

updateTeacher(input) ==
    LET op == "updateTeacher" IN
    IF input.id \notin DOMAIN teachers
    THEN /\ resp' = Fail(op, input, NotFound("Teacher", input.id))
         /\ UNCHANGED <<store, now, inflight>>
    ELSE IF input.email # NULL
            /\ TakenBy(teachers, "email", Val(input.email)) \ {input.id} # {}
    THEN /\ resp' = Fail(op, input, StoreError("unique"))
         /\ UNCHANGED <<store, now, inflight>>
    ELSE LET old == teachers[input.id]
             row == [name |-> IF input.name # NULL THEN Val(input.name) ELSE old.name,
                     email |-> IF input.email # NULL THEN Val(input.email) ELSE old.email,
                     updated_at |-> now]
         IN  /\ teachers' = [teachers EXCEPT ![input.id] = row]
             /\ resp' = Reply(op, input, NoError, NULL, <<[id |-> input.id] @@ row>>)
             /\ UNCHANGED <<schools, classes, students, transactions, aspirations,
                            nextId, now, inflight>>

deleteTeacher(id) ==
    LET op == "deleteTeacher" IN
    IF id \notin DOMAIN teachers
    THEN /\ resp' = Fail(op, [id |-> id], NotFound("Teacher", id))
         /\ UNCHANGED <<store, now, inflight>>
    ELSE IF ClassesOf(id) # {}
    THEN /\ resp' = Fail(op, [id |-> id], ForeignKey("classes", id))
         /\ UNCHANGED <<store, now, inflight>>
    ELSE /\ teachers' = [t \in DOMAIN teachers \ {id} |-> teachers[t]]
         /\ resp' = Ok(op, [id |-> id])
         /\ UNCHANGED <<schools, classes, students, transactions, aspirations,
                        nextId, now, inflight>>

----------------------------------------------------------------------------
(* school_handlers.ts *)

createSchool(input) ==
    LET op == "createSchool"
        id == nextId.schools
        row == [name |-> input.name, phone |-> input.phone, updated_at |-> now]
    IN  /\ schools' = schools @@ (id :> row)
        /\ nextId' = [nextId EXCEPT !.schools = id + 1]
        /\ resp' = Reply(op, input, NoError, NULL, <<[id |-> id] @@ row>>)
        /\ UNCHANGED <<teachers, classes, students, transactions, aspirations, now, inflight>>

(* phone of an update input: undefined is NULL, null is Some(NULL), a *)
(* phone p is Some(Some(p))                                           *)
updateSchool(input) ==
    LET op == "updateSchool" IN
    IF input.id \notin DOMAIN schools
    THEN /\ resp' = Fail(op, input, NotFound("School", input.id))
         /\ UNCHANGED <<store, now, inflight>>
    ELSE LET old == schools[input.id]
             row == [name |-> IF input.name # NULL THEN Val(input.name) ELSE old.name,
                     phone |-> SetNullable(old.phone, input.phone),
                     updated_at |-> now]
         IN  /\ schools' = [schools EXCEPT ![input.id] = row]
             /\ resp' = Reply(op, input, NoError, NULL, <<[id |-> input.id] @@ row>>)
             /\ UNCHANGED <<teachers, classes, students, transactions, aspirations,
                            nextId, now, inflight>>

----------------------------------------------------------------------------
(* aspiration_handlers.ts *)

ReturnedAspiration(id, row) ==
    [id |-> id, description |-> row.description,
     target_amount |-> ParseFloat(row.target_amount),
     student_id |-> row.student_id, updated_at |-> row.updated_at]

createStudentAspiration(input) ==
    LET op == "createStudentAspiration" IN
    IF input.student_id \notin DOMAIN students
    THEN /\ resp' = Fail(op, input, NotFound("Student", input.student_id))
         /\ UNCHANGED <<store, now, inflight>>
    ELSE LET id == nextId.aspirations
             row == [description |-> input.description,
                     target_amount |-> ToNumeric(input.target_amount),
                     student_id |-> input.student_id,
                     updated_at |-> now]
         IN  /\ aspirations' = aspirations @@ (id :> row)
             /\ nextId' = [nextId EXCEPT !.aspirations = id + 1]
             /\ resp' = Reply(op, input, NoError, NULL, <<ReturnedAspiration(id, row)>>)
             /\ UNCHANGED <<schools, teachers, classes, students, transactions, now, inflight>>

getStudentAspiration(id) ==
    /\ resp' = Reply("getStudentAspiration", [id |-> id], NoError, NULL,
                     IF id \in DOMAIN aspirations
                     THEN <<ReturnedAspiration(id, aspirations[id])>> ELSE <<>>)
    /\ UNCHANGED <<store, now, inflight>>

updateStudentAspiration(input) ==
    LET op == "updateStudentAspiration" IN
    IF input.id \notin DOMAIN aspirations
    THEN /\ resp' = Fail(op, input, NotFound("StudentAspiration", input.id))
         /\ UNCHANGED <<store, now, inflight>>
    ELSE IF input.student_id # NULL /\ Val(input.student_id) \notin DOMAIN students
    THEN /\ resp' = Fail(op, input, NotFound("Student", Val(input.student_id)))
         /\ UNCHANGED <<store, now, inflight>>
    ELSE IF Supplied(input) = {}
    THEN /\ resp' = Fail(op, input, StoreError("no_values_to_set"))
         /\ UNCHANGED <<store, now, inflight>>
    ELSE LET old == aspirations[input.id]
             row == [description |-> IF input.description # NULL
                                     THEN Val(input.description) ELSE old.description,
                     target_amount |-> IF input.target_amount # NULL
                                       THEN ToNumeric(Val(input.target_amount))
                                       ELSE old.target_amount,
                     student_id |-> IF input.student_id # NULL
                                    THEN Val(input.student_id) ELSE old.student_id,
                     updated_at |-> old.updated_at]
         IN  /\ aspirations' = [aspirations EXCEPT ![input.id] = row]
             /\ resp' = Reply(op, input, NoError, NULL,
                              <<ReturnedAspiration(input.id, row)>>)
             /\ UNCHANGED <<schools, teachers, classes, students, transactions,
                            nextId, now, inflight>>

deleteStudentAspiration(id) ==
    LET op == "deleteStudentAspiration" IN
    IF id \notin DOMAIN aspirations
    THEN /\ resp' = Fail(op, [id |-> id], NotFound("StudentAspiration", id))
         /\ UNCHANGED <<store, now, inflight>>
    ELSE /\ aspirations' = [a \in DOMAIN aspirations \ {id} |-> aspirations[a]]
         /\ resp' = Ok(op, [id |-> id])
         /\ UNCHANGED <<schools, teachers, classes, students, transactions,
                        nextId, now, inflight>>

(* a variant that returns the empty list for a student that is not there *)
getAspirationsByStudentOrNone(studentId) ==
    /\ \E rows \in AnyOrder({ReturnedAspiration(a, aspirations[a]) :
                               a \in AspirationsOf(studentId)}) :
          resp' = Reply("getAspirationsByStudent", [id |-> studentId], NoError, NULL, rows)
    /\ UNCHANGED <<store, now, inflight>>

getAspirationsByStudent(studentId) ==
    LET op == "getAspirationsByStudent" IN
    /\ IF studentId \notin DOMAIN students
       THEN resp' = Fail(op, [id |-> studentId], NotFound("Student", studentId))
       ELSE \E rows \in AnyOrder({ReturnedAspiration(a, aspirations[a]) :
                                    a \in AspirationsOf(studentId)}) :
               resp' = Reply(op, [id |-> studentId], NoError, NULL, rows)
    /\ UNCHANGED <<store, now, inflight>>

(* student_aspirations INNER JOIN students WHERE students.class_id = classId *)
getAspirationsByClass(classId) ==
    LET op == "getAspirationsByClass" IN
    /\ IF classId \notin DOMAIN classes
       THEN resp' = Fail(op, [id |-> classId], NotFound("Class", classId))
       ELSE \E rows \in AnyOrder(
                  {ReturnedAspiration(r.a, aspirations[r.a]) :
                     r \in {x \in [a : DOMAIN aspirations, s : DOMAIN students] :
                              /\ aspirations[x.a].student_id = x.s
                              /\ students[x.s].class_id = classId}}) :
               resp' = Reply(op, [id |-> classId], NoError, NULL, rows)
    /\ UNCHANGED <<store, now, inflight>>

(* ... INNER JOIN classes WHERE classes.homeroom_teacher_id = teacherId *)
getAspirationsByTeacher(teacherId) ==
    LET op == "getAspirationsByTeacher" IN
    /\ IF teacherId \notin DOMAIN teachers
       THEN resp' = Fail(op, [id |-> teacherId], NotFound("Teacher", teacherId))
       ELSE \E rows \in AnyOrder(
                  {ReturnedAspiration(r.a, aspirations[r.a]) :
                     r \in {x \in [a : DOMAIN aspirations, s : DOMAIN students,
                                   c : DOMAIN classes] :
                              /\ aspirations[x.a].student_id = x.s
                              /\ students[x.s].class_id = x.c
                              /\ classes[x.c].homeroom_teacher_id = Some(teacherId)}}) :
               resp' = Reply(op, [id |-> teacherId], NoError, NULL, rows)
    /\ UNCHANGED <<store, now, inflight>>

----------------------------------------------------------------------------
(* leaderboard_handlers.ts *)

(* SQL sum over the values of vals (a function from joined rows to a *)
(* value or NULL): NULL values are skipped, and the sum of no value  *)
(* is NULL.                                                          *)
RECURSIVE SumValues(_, _)
SumValues(vals, R) ==
    IF R = {} THEN 0
    ELSE LET r == CHOOSE x \in R : TRUE
         IN  Val(vals[r]) + SumValues(vals, R \ {r})

NonNull(vals) == {r \in DOMAIN vals : vals[r] # NULL}
SqlSumOf(vals) == IF NonNull(vals) = {} THEN NULL ELSE Some(SumValues(vals, NonNull(vals)))
SqlCountOf(vals) == Cardinality(NonNull(vals))

RECURSIVE Gcd(_, _)
Gcd(a, b) == IF b = 0 THEN a ELSE Gcd(b, a % b)

(* The quotient sum/count as SQL avg gives it.  It is kept as the       *)
(* fraction in lowest terms <<numerator, denominator>> (in cents): the  *)
(* numeric quotient, and the double parseFloat makes of it, are         *)
(* functions of that fraction.                                          *)
Quotient(sum, n) ==
    LET g == Gcd(IF sum < 0 THEN 0 - sum ELSE sum, n)
    IN  <<sum \div g, n \div g>>

(* an average that counts a NULL value as a zero *)
SqlAvgOverRows(vals) ==
    IF NonNull(vals) = {} THEN NULL
    ELSE Some(Quotient(SumValues(vals, NonNull(vals)), Cardinality(DOMAIN vals)))

SqlAvgOf(vals) ==
    IF NonNull(vals) = {} THEN NULL
    ELSE Some(Quotient(SumValues(vals, NonNull(vals)), Cardinality(NonNull(vals))))

(* case when type = 'deposit' then amount else 0 end, on a joined row *)
(* whose transaction t may be NULL (type NULL is not 'deposit')       *)
DepositCase(t) ==
    IF t # NULL /\ transactions[Val(t)].type = "deposit"
    THEN Some(transactions[Val(t)].amount)
    ELSE Some(0)

(* case when type = 'deposit' then amount else -amount end: NULL for *)
(* a NULL transaction                                                *)
SignedCase(t) ==
    IF t = NULL THEN NULL
    ELSE IF transactions[Val(t)].type = "deposit"
    THEN Some(transactions[Val(t)].amount)
    ELSE Some(0 - transactions[Val(t)].amount)

(* ORDER BY key ASC: a NULL key sorts last *)
AscBefore(a, b) == b = NULL \/ (a # NULL /\ Val(a) <= Val(b))

(* ORDER BY key DESC: a NULL key sorts first *)
DescBefore(a, b) == a = NULL \/ (b # NULL /\ Val(a) >= Val(b))

(* a query without its ORDER BY: the rows R in any order *)
Unordered(R) ==
    {q \in [1..Cardinality(R) -> R] :
        \A i, j \in 1..Cardinality(R) : i # j => q[i] # q[j]}

(* the orders in which the store may return the rows R under *)
(* ORDER BY sort_key DESC                                    *)
OrderBy(R) ==
    LET n == Cardinality(R)
    IN  {q \in [1..n -> R] :
            /\ \A i, j \in 1..n : i # j => q[i] # q[j]
            /\ \A i, j \in 1..n : i < j => DescBefore(q[i].sort_key, q[j].sort_key)}

(* const query = limit ? baseQuery.limit(limit) : baseQuery *)
ApplyLimit(limit, q) ==
    IF Truthy(limit)
    THEN SubSeq(q, 1, IF Val(limit) < Len(q) THEN Val(limit) ELSE Len(q))
    ELSE q

(* students INNER JOIN classes INNER JOIN transactions *)
StudentInnerJoin ==
    UNION {UNION {{[s |-> s, c |-> c, t |-> Some(t)] : t \in TransactionsOf(s)}
                  : c \in {x \in DOMAIN classes : students[s].class_id = x}}
           : s \in DOMAIN students}

(* students INNER JOIN classes LEFT JOIN transactions *)
StudentJoin ==
    UNION {UNION {IF TransactionsOf(s) = {}
                  THEN {[s |-> s, c |-> c, t |-> NULL]}
                  ELSE {[s |-> s, c |-> c, t |-> Some(t)] : t \in TransactionsOf(s)}
                  : c \in {x \in DOMAIN classes : students[s].class_id = x}}
           : s \in DOMAIN students}

(* no filter on the status *)
AnyStatus(s) == s \in DOMAIN students

IsActive(s) == students[s].status = "active"

(* GROUP BY students.id, students.name, classes.name with the aggregates *)
StudentGroups(J) ==
    LET key(r) == <<r.s, students[r.s].name, classes[r.c].name>>
        group(k) == {r \in J : key(r) = k}
    IN  {[student_id |-> k[1],
          student_name |-> k[2],
          class_name |-> k[3],
          sort_key |-> SqlSumOf([r \in group(k) |-> DepositCase(r.t)]),
          total_deposits |-> SqlSumOf([r \in group(k) |-> DepositCase(r.t)]),
          transaction_count |-> SqlCountOf([r \in group(k) |-> r.t]),
          current_balance |-> SqlSumOf([r \in group(k) |-> SignedCase(r.t)])]
         : k \in {key(r) : r \in J}}

(* results.map(...): parseFloat(x || '0') *)
StudentRow(g) ==
    [student_id |-> g.student_id,
     student_name |-> g.student_name,
     class_name |-> g.class_name,
     total_deposits |-> ParseFloat(IF g.total_deposits # NULL
                                   THEN Val(g.total_deposits) ELSE 0),
     transaction_count |-> g.transaction_count,
     current_balance |-> ParseFloat(IF g.current_balance # NULL
                                    THEN Val(g.current_balance) ELSE 0)]

(* the results the store may give for a student leaderboard over the *)
(* joined rows J                                                     *)
StudentBoards(J, limit) ==
    {LET results == ApplyLimit(limit, q)
     IN  [i \in 1..Len(results) |-> StudentRow(results[i])]
     : q \in OrderBy(StudentGroups(J))}

(* WHERE clauses that leave one condition out *)
WhereClassAnyStatus(r, classId) == students[r.s].class_id = classId
WhereAnyTeacher(r, teacherId) == IsActive(r.s)

(* the WHERE clauses of the three student leaderboards, on a joined row *)
WhereActive(r) == IsActive(r.s)
WhereClass(r, classId) == students[r.s].class_id = classId /\ IsActive(r.s)
WhereTeacher(r, teacherId) ==
    classes[r.c].homeroom_teacher_id = Some(teacherId) /\ IsActive(r.s)

StudentLeaderboardResults(limit) ==
    StudentBoards({r \in StudentJoin : WhereActive(r)}, limit)

StudentLeaderboardByClassResults(classId, limit) ==
    StudentBoards({r \in StudentJoin : WhereClass(r, classId)}, limit)

StudentLeaderboardByTeacherResults(teacherId, limit) ==
    StudentBoards({r \in StudentJoin : WhereTeacher(r, teacherId)}, limit)

(* a variant that joins the transactions of every student, whatever the *)
(* status                                                               *)
ClassJoinAnyStatus ==
    UNION {IF StudentsOf(c) = {}
           THEN {[c |-> c, s |-> NULL, t |-> NULL]}
           ELSE UNION {IF TransactionsOf(s) = {}
                       THEN {[c |-> c, s |-> Some(s), t |-> NULL]}
                       ELSE {[c |-> c, s |-> Some(s), t |-> Some(t)]
                               : t \in TransactionsOf(s)}
                       : s \in StudentsOf(c)}
           : c \in DOMAIN classes}

(* classes LEFT JOIN students LEFT JOIN transactions ON student_id = *)
(* students.id AND students.status = 'active'                        *)
ClassJoin ==
    UNION {IF StudentsOf(c) = {}
           THEN {[c |-> c, s |-> NULL, t |-> NULL]}
           ELSE UNION {LET T == IF IsActive(s) THEN TransactionsOf(s) ELSE {}
                       IN  IF T = {}
                           THEN {[c |-> c, s |-> Some(s), t |-> NULL]}
                           ELSE {[c |-> c, s |-> Some(s), t |-> Some(t)] : t \in T}
                       : s \in StudentsOf(c)}
           : c \in DOMAIN classes}

(* students.id, whatever the status *)
AnyStudentCase(s) == s

(* case when students.status = 'active' then students.id end *)
ActiveCase(s) == IF s # NULL /\ IsActive(Val(s)) THEN s ELSE NULL

ClassGroups(J) ==
    LET key(r) == <<r.c, classes[r.c].name>>
        group(k) == {r \in J : key(r) = k}
    IN  {[class_id |-> k[1],
          class_name |-> k[2],
          sort_key |-> SqlSumOf([r \in group(k) |-> DepositCase(r.t)]),
          total_deposits |-> SqlSumOf([r \in group(k) |-> DepositCase(r.t)]),
          total_students |-> Cardinality({ActiveCase(r.s) : r \in group(k)} \ {NULL}),
          average_balance |-> SqlAvgOf([r \in group(k) |-> SignedCase(r.t)])]
         : k \in {key(r) : r \in J}}

ClassRow(g) ==
    [class_id |-> g.class_id,
     class_name |-> g.class_name,
     total_deposits |-> ParseFloat(IF g.total_deposits # NULL
                                   THEN Val(g.total_deposits) ELSE 0),
     total_students |-> g.total_students,
     average_balance |-> IF g.average_balance # NULL
                         THEN Val(g.average_balance) ELSE Quotient(0, 1)]

ClassLeaderboardResults(limit) ==
    {LET results == ApplyLimit(limit, q)
     IN  [i \in 1..Len(results) |-> ClassRow(results[i])]
     : q \in OrderBy(ClassGroups(ClassJoin))}

Limits == Opt(0..MaxLimit)

getStudentLeaderboard(limit) ==
    /\ \E rows \in StudentLeaderboardResults(limit) :
          resp' = Reply("getStudentLeaderboard", [limit |-> limit], NoError, NULL, rows)
    /\ UNCHANGED <<store, now, inflight>>

getClassLeaderboard(limit) ==
    /\ \E rows \in ClassLeaderboardResults(limit) :
          resp' = Reply("getClassLeaderboard", [limit |-> limit], NoError, NULL, rows)
    /\ UNCHANGED <<store, now, inflight>>

getStudentLeaderboardByClass(classId, limit) ==
    /\ \E rows \in StudentLeaderboardByClassResults(classId, limit) :
          resp' = Reply("getStudentLeaderboardByClass",
                        [id |-> classId, limit |-> limit], NoError, NULL, rows)
    /\ UNCHANGED <<store, now, inflight>>

getStudentLeaderboardByTeacher(teacherId, limit) ==
    /\ \E rows \in StudentLeaderboardByTeacherResults(teacherId, limit) :
          resp' = Reply("getStudentLeaderboardByTeacher",
                        [id |-> teacherId, limit |-> limit], NoError, NULL, rows)
    /\ UNCHANGED <<store, now, inflight>>

----------------------------------------------------------------------------
(* The requests of a client that makes one call at a time: a handler   *)
(* runs from start to end, its reply is in resp until the client has   *)
(* taken it.                                                            *)

Idle == Reply("idle", <<>>, NoError, NULL, <<>>)

Return ==
    /\ resp # Idle
    /\ resp' = Idle
    /\ UNCHANGED <<store, now, inflight>>

TransactionInputs ==
    [date : {1}, type : Types, amount : AmountInputs, notes : {NULL},
     student_id : StudentIdArgs]
TransactionUpdates ==
    [id : TransactionIdArgs, date : {NULL}, type : Opt(Types),
     amount : Opt(AmountInputs), notes : {NULL}, student_id : Opt(StudentIdArgs)]
ClassUpdates ==
    [id : ClassIdArgs, name : {NULL}, homeroom_teacher_id : Opt(Opt(TeacherIdArgs))]
(* the client edits Alice (student 1) or a student that does not exist *)
StudentUpdates ==
    [id : {1, 3}, name : {NULL}, nisn : {NULL}, nis : {NULL},
     class_id : Opt(ClassIdArgs), status : Opt(Statuses)]

(* rows as the tests' setup inserts them, at the first instant *)
Teacher(name, email) == [name |-> name, email |-> email, updated_at |-> 1]
Class(name, teacher) ==
    [name |-> name, homeroom_teacher_id |-> teacher, updated_at |-> 1]
Student(name, nisn, nis, class, status) ==
    [name |-> name, nisn |-> nisn, nis |-> nis, class_id |-> class,
     status |-> status, updated_at |-> 1]

(* the serial of transactions stays within the model's bound *)
RoomFor(input, max) ==
    input.student_id \in DOMAIN students => nextId.transactions <= max

(* A school with one teacher, two classes and two students (Bob active *)
(* or graduated), and an empty ledger                                  *)
Init ==
    /\ schools = <<>>
    /\ teachers = (1 :> Teacher("Tuti", "tuti@school"))
    /\ classes = (1 :> Class("Class A", NULL)) @@ (2 :> Class("Class B", NULL))
    /\ \E st \in {"active", "graduated"} :
          students = (1 :> Student("Alice", "nisn1", "nis1", 1, "active"))
                  @@ (2 :> Student("Bob", "nisn2", "nis2", 1, st))
    /\ transactions = <<>>
    /\ aspirations = <<>>
    /\ nextId = [schools |-> 1, teachers |-> 2, classes |-> 3, students |-> 3,
                 transactions |-> 1, aspirations |-> 1]
    /\ now = 1
    /\ inflight = <<>>
    /\ resp = Idle

CallUpdateClass ==
    resp = Idle /\ \E input \in ClassUpdates : updateClass(input)
CallUpdateStudent ==
    resp = Idle /\ \E input \in StudentUpdates : updateStudent(input)
CallCreateTransaction ==
    resp = Idle /\ \E input \in TransactionInputs :
                      RoomFor(input, MaxTransactions) /\ createTransaction(input)
CallGetStudentLeaderboard ==
    resp = Idle /\ \E limit \in Limits : getStudentLeaderboard(limit)
CallGetClassLeaderboard ==
    resp = Idle /\ \E limit \in Limits : getClassLeaderboard(limit)
CallGetStudentLeaderboardByClass ==
    resp = Idle /\ \E id \in ClassIdArgs, limit \in Limits :
                      getStudentLeaderboardByClass(id, limit)
CallGetStudentLeaderboardByTeacher ==
    resp = Idle /\ \E id \in TeacherIdArgs, limit \in Limits :
                      getStudentLeaderboardByTeacher(id, limit)

Next ==
    \/ CallUpdateClass
    \/ CallUpdateStudent
    \/ CallCreateTransaction
    \/ CallGetStudentLeaderboard
    \/ CallGetClassLeaderboard
    \/ CallGetStudentLeaderboardByClass
    \/ CallGetStudentLeaderboardByTeacher
    \/ Return

Spec == Init /\ [][Next]_vars

(* The ledger of two students of one class, the first of any status *)
InitLedger ==
    /\ schools = <<>>
    /\ teachers = (1 :> Teacher("Tuti", "tuti@school"))
    /\ classes = (1 :> Class("Class A", Some(1)))
    /\ \E st \in Statuses :
          students = (1 :> Student("Alice", "nisn1", "nis1", 1, st))
                  @@ (2 :> Student("Bob", "nisn2", "nis2", 1, "active"))
    /\ transactions = <<>>
    /\ aspirations = <<>>
    /\ nextId = [schools |-> 1, teachers |-> 2, classes |-> 2, students |-> 3,
                 transactions |-> 1, aspirations |-> 1]
    /\ now = 1
    /\ inflight = <<>>
    /\ resp = Idle

LedgerCreateTransaction ==
    resp = Idle /\ \E input \in TransactionInputs :
                      RoomFor(input, MaxLedger) /\ createTransaction(input)
LedgerUpdateTransaction ==
    resp = Idle /\ \E input \in TransactionUpdates : updateTransaction(input)
LedgerDeleteTransaction ==
    resp = Idle /\ \E id \in TransactionIdArgs : deleteTransaction(id)
LedgerGetStudentBalance ==
    resp = Idle /\ \E id \in StudentIdArgs : getStudentBalance(id)

LedgerRead ==
    \/ resp = Idle /\ \E limit \in Limits : getStudentLeaderboard(limit)
    \/ resp = Idle /\ \E id \in StudentIdArgs : getTransactionsByStudent(id)

NextLedger ==
    \/ LedgerCreateTransaction
    \/ LedgerUpdateTransaction
    \/ LedgerDeleteTransaction
    \/ LedgerGetStudentBalance
    \/ LedgerRead
    \/ Return

SpecLedger == InitLedger /\ [][NextLedger]_vars

----------------------------------------------------------------------------
(* Queries over the ledger of two students in two classes: Alice in     *)
(* Class A, whose homeroom teacher is teacher 1, and Bob in Class B,    *)
(* which has none; teacher 2 has no class.                              *)

Dates == {1, 2}

InitQueries ==
    /\ schools = <<>>
    /\ teachers = (1 :> Teacher("Tuti", "tuti@school"))
               @@ (2 :> Teacher("Budi", "budi@school"))
    /\ classes = (1 :> Class("Class A", Some(1))) @@ (2 :> Class("Class B", NULL))
    /\ students = (1 :> Student("Alice", "nisn1", "nis1", 1, "active"))
               @@ (2 :> Student("Bob", "nisn2", "nis2", 2, "active"))
    /\ transactions = <<>>
    /\ aspirations = <<>>
    /\ nextId = [schools |-> 1, teachers |-> 3, classes |-> 3, students |-> 3,
                 transactions |-> 1, aspirations |-> 1]
    /\ now = 1
    /\ inflight = <<>>
    /\ resp = Idle

(* deposits and withdrawals of Alice and Bob are entered, and Alice *)
(* changes class                                                   *)
QueryWrite ==
    \/ resp = Idle
       /\ \E input \in [date : Dates, type : Types, amount : {100}, notes : {NULL},
                        student_id : {1, 2}] :
             RoomFor(input, MaxQueried) /\ createTransaction(input)
    \/ resp = Idle
       /\ \E input \in [id : {1}, name : {NULL}, nisn : {NULL}, nis : {NULL},
                        class_id : {Some(1), Some(2)}, status : {NULL}] :
             updateStudent(input)

(* ids a filter may name: 0, an id in use, an id not in use *)
Filters ==
    [student_id : Opt({0, 1, 3}), class_id : Opt({0, 1, 3}),
     start_date : Opt(Dates), end_date : Opt(Dates), type : Opt(Types)]

QueryRead ==
    \/ resp = Idle /\ \E filter \in Filters : getTransactions(filter)
    \/ resp = Idle /\ \E filter \in Filters : getTransactionReport(filter)
    \/ resp = Idle /\ \E id \in ClassIdArgs : getTransactionsByClass(id)
    \/ resp = Idle /\ \E id \in {1, 2, 3} : getTransactionsByTeacher(id)

NextQueries ==
    \/ QueryWrite
    \/ QueryRead
    \/ Return

SpecQueries == InitQueries /\ [][NextQueries]_vars

----------------------------------------------------------------------------
(* Updates of one row of each table. Every call is made at an instant *)
(* later than the call before it; the rows were written at instant 1. *)

InitUpdates ==
    /\ schools = (1 :> [name |-> "SMP 1", phone |-> Some("021"), updated_at |-> 1])
    /\ teachers = (1 :> Teacher("Tuti", "tuti@school"))
               @@ (2 :> Teacher("Budi", "budi@school"))
    /\ classes = (1 :> Class("Class A", Some(1))) @@ (2 :> Class("Class B", NULL))
    /\ students = (1 :> Student("Alice", "nisn1", "nis1", 1, "active"))
               @@ (2 :> Student("Bob", "nisn2", "nis2", 2, "active"))
    /\ transactions = (1 :> [date |-> 1, type |-> "deposit", amount |-> 10,
                             notes |-> Some("pocket money"), student_id |-> 1,
                             updated_at |-> 1])
    /\ aspirations = (1 :> [description |-> "bicycle", target_amount |-> 30,
                            student_id |-> 1, updated_at |-> 1])
    /\ nextId = [schools |-> 2, teachers |-> 3, classes |-> 3, students |-> 3,
                 transactions |-> 2, aspirations |-> 2]
    /\ now = 2
    /\ inflight = <<>>
    /\ resp = Idle

(* the reply is handed over and time passes before the next call *)
ReturnLater ==
    /\ resp # Idle
    /\ resp' = Idle
    /\ now' = now + 1
    /\ UNCHANGED <<store, inflight>>

(* In an update input undefined is NULL; for a nullable column null is *)
(* Some(NULL) and a value v is Some(Some(v)).                          *)
Edit ==
    \/ /\ resp = Idle /\ now <= MaxClock
       /\ \E input \in [id : {1, 2}, name : Opt({"SMP 2"}), phone : Opt(Opt({"022"}))] :
             updateSchool(input)
    \/ /\ resp = Idle /\ now <= MaxClock
       /\ \E input \in [id : {1, 3}, name : Opt({"Wati"}),
                        email : Opt({"wati@school"})] :
             updateTeacher(input)
    \/ /\ resp = Idle /\ now <= MaxClock
       /\ \E input \in [id : {1, 3}, name : Opt({"Class C"}),
                        homeroom_teacher_id : Opt(Opt({2, 3}))] :
             updateClass(input)
    \/ /\ resp = Idle /\ now <= MaxClock
       /\ \E input \in [id : {1, 3}, name : Opt({"Alicia"}), nisn : {NULL},
                        nis : {NULL}, class_id : Opt({2, 3}), status : {NULL}] :
             updateStudent(input)
    \/ /\ resp = Idle /\ now <= MaxClock
       /\ \E input \in [id : {1, 2}, date : {NULL}, type : Opt({"withdrawal"}),
                        amount : Opt({300}), notes : Opt({NULL}),
                        student_id : Opt({0, 2, 3})] :
             updateTransaction(input)
    \/ /\ resp = Idle /\ now <= MaxClock
       /\ \E input \in [id : {1, 2}, description : Opt({"laptop"}),
                        target_amount : Opt({100}), student_id : Opt({2, 3})] :
             updateStudentAspiration(input)

AddTransaction ==
    /\ resp = Idle /\ now <= MaxClock
    /\ \E input \in [date : {2}, type : {"withdrawal"}, amount : AmountInputs,
                     notes : Opt({"fee"}), student_id : {0, 2, 3}] :
          createTransaction(input)

NextUpdates ==
    \/ Edit
    \/ AddTransaction
    \/ ReturnLater

SpecUpdates == InitUpdates /\ [][NextUpdates]_vars

----------------------------------------------------------------------------
(* Creating, moving, deleting and reading the rows of the five tables  *)
(* that refer to each other, from a school of one teacher, one class   *)
(* and one student.                                                    *)

InitStore ==
    /\ schools = <<>>
    /\ teachers = (1 :> Teacher("Tuti", "tuti@school"))
    /\ classes = (1 :> Class("Class A", Some(1)))
    /\ students = (1 :> Student("Alice", "nisn1", "nis1", 1, "active"))
    /\ transactions = <<>>
    /\ aspirations = <<>>
    /\ nextId = [schools |-> 1, teachers |-> 2, classes |-> 2, students |-> 2,
                 transactions |-> 1, aspirations |-> 1]
    /\ now = 1
    /\ inflight = <<>>
    /\ resp = Idle

RowIds12 == {1, 2}
(* the serials handed out since the start *)
Created ==
    nextId.teachers + nextId.classes + nextId.students + nextId.transactions
        + nextId.aspirations - 8

StoreCreate ==
    \/ /\ resp = Idle /\ Created < MaxCreated
       /\ createTeacher([name |-> "Budi", email |-> "budi@school"])
    \/ /\ resp = Idle /\ Created < MaxCreated
       /\ \E input \in [name : {"Class B"}, homeroom_teacher_id : Opt(RowIds12)] :
             createClass(input)
    \/ /\ resp = Idle /\ Created < MaxCreated
       /\ \E input \in [name : {"Bob"}, nisn : {"nisn2"}, nis : {"nis2"},
                        class_id : RowIds12, status : {"active"}] :
             createStudent(input)
    \/ /\ resp = Idle /\ Created < MaxCreated
       /\ \E input \in [date : {1}, type : {"deposit"}, amount : {100},
                        notes : {NULL}, student_id : RowIds12] :
             createTransaction(input)
    \/ /\ resp = Idle /\ Created < MaxCreated
       /\ \E input \in [description : {"bicycle"}, target_amount : {300},
                        student_id : RowIds12] :
             createStudentAspiration(input)

(* updates of the columns that refer to another table *)
StoreUpdate ==
    \/ /\ resp = Idle
       /\ \E input \in [id : RowIds12, name : {NULL},
                        homeroom_teacher_id : Opt(Opt(RowIds12)) \ {NULL}] :
             updateClass(input)
    \/ /\ resp = Idle
       /\ \E input \in [id : RowIds12, name : {NULL}, nisn : {NULL}, nis : {NULL},
                        class_id : {Some(1), Some(2)}, status : {NULL}] :
             updateStudent(input)
    \/ /\ resp = Idle
       /\ \E input \in [id : {1}, date : {NULL}, type : {NULL}, amount : {NULL},
                        notes : {NULL}, student_id : {Some(1), Some(2)}] :
             updateTransaction(input)
    \/ /\ resp = Idle
       /\ \E input \in [id : {1}, description : {NULL}, target_amount : {NULL},
                        student_id : {Some(1), Some(2)}] :
             updateStudentAspiration(input)

StoreDelete ==
    \/ resp = Idle /\ \E id \in RowIds12 : deleteTeacher(id)
    \/ resp = Idle /\ \E id \in RowIds12 : deleteClass(id)
    \/ resp = Idle /\ \E id \in RowIds12 : deleteStudent(id)
    \/ resp = Idle /\ \E id \in RowIds12 : deleteTransaction(id)
    \/ resp = Idle /\ \E id \in RowIds12 : deleteStudentAspiration(id)

StoreGet ==
    \/ resp = Idle /\ \E id \in RowIds12 : getTeacher(id)
    \/ resp = Idle /\ \E id \in RowIds12 : getClass(id)
    \/ resp = Idle /\ \E id \in RowIds12 : getStudent(id)
    \/ resp = Idle /\ \E id \in RowIds12 : getTransaction(id)
    \/ resp = Idle /\ \E id \in RowIds12 : getStudentAspiration(id)

StoreList ==
    \/ resp = Idle /\ \E id \in RowIds12 : getAspirationsByStudent(id)
    \/ resp = Idle /\ \E id \in RowIds12 : getAspirationsByClass(id)
    \/ resp = Idle /\ \E id \in RowIds12 : getAspirationsByTeacher(id)
    \/ resp = Idle /\ \E id \in RowIds12 : getClassesByTeacher(id)

NextStore ==
    \/ StoreCreate
    \/ StoreUpdate
    \/ StoreDelete
    \/ StoreList
    \/ StoreGet
    \/ Return

SpecStore == InitStore /\ [][NextStore]_vars

----------------------------------------------------------------------------
(* Teachers and students taking and changing their unique values:      *)
(* emails of teachers, nisn and nis of students.                       *)

InitUnique ==
    /\ schools = <<>>
    /\ teachers = (1 :> Teacher("Tuti", "tuti@school"))
    /\ classes = (1 :> Class("Class A", Some(1)))
    /\ students = (1 :> Student("Alice", "nisn1", "nis1", 1, "active"))
    /\ transactions = <<>>
    /\ aspirations = <<>>
    /\ nextId = [schools |-> 1, teachers |-> 2, classes |-> 2, students |-> 2,
                 transactions |-> 1, aspirations |-> 1]
    /\ now = 1
    /\ inflight = <<>>
    /\ resp = Idle

Emails == {"tuti@school", "budi@school", "wati@school"}
Nisns == {"nisn1", "nisn2"}
Niss == {"nis1", "nis2"}

UniqueCreate ==
    \/ /\ resp = Idle /\ nextId.teachers <= MaxRows
       /\ \E input \in [name : {"Budi"}, email : Emails] : createTeacher(input)
    \/ /\ resp = Idle /\ nextId.students <= MaxRows
       /\ \E input \in [name : {"Bob"}, nisn : Nisns, nis : Niss, class_id : {1},
                        status : {"active"}] :
             createStudent(input)

UniqueUpdate ==
    \/ /\ resp = Idle
       /\ \E input \in [id : RowIds12, name : {NULL}, email : Opt(Emails)] :
             updateTeacher(input)
    \/ /\ resp = Idle
       /\ \E input \in [id : RowIds12, name : {NULL}, nisn : Opt(Nisns),
                        nis : Opt(Niss), class_id : {NULL}, status : {NULL}] :
             updateStudent(input)

NextUnique ==
    \/ UniqueCreate
    \/ UniqueUpdate
    \/ Return

SpecUnique == InitUnique /\ [][NextUnique]_vars

----------------------------------------------------------------------------
(* Two calls in flight at once.  A handler runs from one await to the   *)
(* next: each statement it sends to the store is one step, and the      *)
(* steps of the two calls interleave.  inflight[c] is the call of       *)
(* client c: where it stands (pc), the row its first lookup saw, and    *)
(* its outcome once it is done.                                         *)

Clients == {1, 2}

RaceCreates ==
    {"createClass", "createStudent", "createTransaction", "createStudentAspiration"}

(* the calls the two clients choose from *)
RaceCalls ==
    [op : {"createClass"},
     args : [name : {"Class C"}, homeroom_teacher_id : {Some(2)}]]
    \cup [op : {"createStudent"},
          args : [name : {"Cici"}, nisn : {"nisn3"}, nis : {"nis3"},
                  class_id : {2}, status : {"active"}]]
    \cup [op : {"createTransaction"},
          args : [date : {1}, type : {"deposit"}, amount : {100}, notes : {NULL},
                  student_id : {2}]]
    \cup [op : {"createStudentAspiration"},
          args : [description : {"guitar"}, target_amount : {100}, student_id : {2}]]
    \cup [op : {"updateClass"},
          args : [id : {2}, name : {NULL},
                  homeroom_teacher_id : {NULL, Some(Some(2))}]]
    \cup [op : {"updateTransaction"},
          args : [id : {1}, date : {NULL}, type : {Some("withdrawal")},
                  amount : {NULL}, notes : {NULL}, student_id : {NULL, Some(2)}]]
    \cup [op : {"updateStudentAspiration"},
          args : [id : {1}, description : {NULL}, target_amount : {Some(300)},
                  student_id : {NULL, Some(2)}]]
    \cup [op : {"deleteTeacher", "deleteClass", "deleteStudent"}, args : [id : {1, 2}]]
    \cup [op : {"deleteTransaction", "deleteStudentAspiration"}, args : [id : {1}]]

(* the id a handler looks up before its write, or NULL when the code *)
(* skips the lookup; seen is the row the handler read first          *)
LooksUp(op, input, seen) ==
    CASE op = "createClass" ->
            IF Truthy(input.homeroom_teacher_id) THEN input.homeroom_teacher_id ELSE NULL
      [] op = "updateClass" ->
            IF input.homeroom_teacher_id # NULL /\ Val(input.homeroom_teacher_id) # NULL
            THEN Val(input.homeroom_teacher_id) ELSE NULL
      [] op \in {"createTransaction", "createStudentAspiration"} ->
            Some(input.student_id)
      [] op = "updateTransaction" ->
            IF Truthy(input.student_id) /\ Val(input.student_id) # Val(seen).student_id
            THEN input.student_id ELSE NULL
      [] op = "updateStudentAspiration" -> input.student_id
      [] OTHER -> NULL

(* the call as the router hands it to the handler, at its first statement *)
Pending(call) ==
    [op |-> call.op, args |-> call.args, seen |-> NULL,
     error |-> NoError, rows |-> <<>>,
     pc |-> IF call.op \in {"createStudent", "deleteTeacher", "deleteStudent"}
            THEN "write"
            ELSE IF call.op \in RaceCreates
            THEN (IF LooksUp(call.op, call.args, NULL) = NULL THEN "write" ELSE "ref")
            ELSE "own"]

(* the handler returns (rows) or throws (error) *)
Done(call, error, rows) == [call EXCEPT !.pc = "done", !.error = error, !.rows = rows]

(* a store without foreign keys *)
Unconstrained(ref, table) == TRUE

(* .references(() => table.id): NULL or the id of a row of the table *)
Resolves(ref, table) == ref = NULL \/ Val(ref) \in DOMAIN table

(* Transactions, aspirations and classes under teachers 1 and 2, the *)
(* second without a class; Class B has no student, Bob no ledger.    *)
InitRace ==
    /\ schools = <<>>
    /\ teachers = (1 :> Teacher("Tuti", "tuti@school"))
               @@ (2 :> Teacher("Budi", "budi@school"))
    /\ classes = (1 :> Class("Class A", Some(1))) @@ (2 :> Class("Class B", NULL))
    /\ students = (1 :> Student("Alice", "nisn1", "nis1", 1, "active"))
               @@ (2 :> Student("Bob", "nisn2", "nis2", 1, "active"))
    /\ transactions = (1 :> [date |-> 1, type |-> "deposit", amount |-> 10,
                             notes |-> NULL, student_id |-> 1, updated_at |-> 1])
    /\ aspirations = (1 :> [description |-> "bicycle", target_amount |-> 30,
                            student_id |-> 1, updated_at |-> 1])
    /\ nextId = [schools |-> 1, teachers |-> 3, classes |-> 3, students |-> 3,
                 transactions |-> 2, aspirations |-> 2]
    /\ now = 2
    /\ resp = Idle
    /\ inflight \in [Clients -> {Pending(call) : call \in RaceCalls}]

(* const existing = await getClass(id) / getTransaction(id) / select   *)
(* from student_aspirations: the handler's lookup of the row it is     *)
(* about to update or delete                                           *)
FindOwn(c) ==
    LET call == inflight[c]
        id == call.args.id
        table == CASE call.op \in {"updateClass", "deleteClass"} -> classes
                   [] call.op \in {"updateTransaction", "deleteTransaction"} -> transactions
                   [] OTHER -> aspirations
        entity == CASE call.op \in {"updateClass", "deleteClass"} -> "Class"
                    [] call.op \in {"updateTransaction", "deleteTransaction"} ->
                          "Transaction"
                    [] OTHER -> "StudentAspiration"
    IN  /\ call.pc = "own"
        /\ inflight' =
              [inflight EXCEPT ![c] =
                  IF id \notin DOMAIN table
                  THEN Done(call, NotFound(entity, id), <<>>)
                  ELSE [call EXCEPT
                          !.seen = Some(table[id]),
                          !.pc = IF LooksUp(call.op, call.args, Some(table[id])) = NULL
                                 THEN "write" ELSE "ref"]]
        /\ UNCHANGED <<store, now, resp>>

(* the select of the teacher or student the input names *)
FindReferred(c) ==
    LET call == inflight[c]
        id == Val(LooksUp(call.op, call.args, call.seen))
        ofTeachers == call.op \in {"createClass", "updateClass"}
    IN  /\ call.pc = "ref"
        /\ inflight' =
              [inflight EXCEPT ![c] =
                  IF id \notin DOMAIN (IF ofTeachers THEN teachers ELSE students)
                  THEN Done(call, NotFound(IF ofTeachers THEN "Teacher" ELSE "Student", id),
                            <<>>)
                  ELSE [call EXCEPT !.pc = "write"]]
        /\ UNCHANGED <<store, now, resp>>

(* db.insert(table).values(...).returning(): the serial hands out the *)
(* id, then the foreign key accepts or rejects the row                *)
Insert(c) ==
    LET call == inflight[c]
        input == call.args
    IN
    /\ call.pc = "write"
    /\ \/ /\ call.op = "createClass"
          /\ LET id == nextId.classes
                 row == [name |-> input.name,
                         homeroom_teacher_id |-> input.homeroom_teacher_id,
                         updated_at |-> now]
             IN  /\ nextId' = [nextId EXCEPT !.classes = id + 1]
                 /\ IF Resolves(input.homeroom_teacher_id, teachers)
                    THEN /\ classes' = classes @@ (id :> row)
                         /\ inflight' = [inflight EXCEPT ![c] =
                               Done(call, NoError, <<[id |-> id] @@ row>>)]
                    ELSE /\ inflight' = [inflight EXCEPT ![c] =
                               Done(call, ForeignKey("classes",
                                                     Val(input.homeroom_teacher_id)), <<>>)]
                         /\ UNCHANGED classes
          /\ UNCHANGED <<schools, teachers, students, transactions, aspirations>>
       \/ /\ call.op = "createStudent"
          /\ LET id == nextId.students
                 row == [name |-> input.name, nisn |-> input.nisn, nis |-> input.nis,
                         class_id |-> input.class_id, status |-> input.status,
                         updated_at |-> now]
             IN  /\ nextId' = [nextId EXCEPT !.students = id + 1]
                 /\ IF \E f \in {"nisn", "nis"} : TakenBy(students, f, input[f]) # {}
                    THEN /\ inflight' = [inflight EXCEPT ![c] =
                               Done(call, StoreError("unique"), <<>>)]
                         /\ UNCHANGED students
                    ELSE IF Resolves(Some(input.class_id), classes)
                    THEN /\ students' = students @@ (id :> row)
                         /\ inflight' = [inflight EXCEPT ![c] =
                               Done(call, NoError, <<[id |-> id] @@ row>>)]
                    ELSE /\ inflight' = [inflight EXCEPT ![c] =
                               Done(call, ForeignKey("students", input.class_id), <<>>)]
                         /\ UNCHANGED students
          /\ UNCHANGED <<schools, teachers, classes, transactions, aspirations>>
       \/ /\ call.op = "createTransaction"
          /\ LET id == nextId.transactions
                 row == [date |-> input.date, type |-> input.type,
                         amount |-> ToNumeric(input.amount), notes |-> input.notes,
                         student_id |-> input.student_id, updated_at |-> now]
             IN  /\ nextId' = [nextId EXCEPT !.transactions = id + 1]
                 /\ IF Resolves(Some(input.student_id), students)
                    THEN /\ transactions' = transactions @@ (id :> row)
                         /\ inflight' = [inflight EXCEPT ![c] =
                               Done(call, NoError, <<Returned(id, row)>>)]
                    ELSE /\ inflight' = [inflight EXCEPT ![c] =
                               Done(call, ForeignKey("transactions", input.student_id),
                                    <<>>)]
                         /\ UNCHANGED transactions
          /\ UNCHANGED <<schools, teachers, classes, students, aspirations>>
       \/ /\ call.op = "createStudentAspiration"
          /\ LET id == nextId.aspirations
                 row == [description |-> input.description,
                         target_amount |-> ToNumeric(input.target_amount),
                         student_id |-> input.student_id, updated_at |-> now]
             IN  /\ nextId' = [nextId EXCEPT !.aspirations = id + 1]
                 /\ IF Resolves(Some(input.student_id), students)
                    THEN /\ aspirations' = aspirations @@ (id :> row)
                         /\ inflight' = [inflight EXCEPT ![c] =
                               Done(call, NoError, <<ReturnedAspiration(id, row)>>)]
                    ELSE /\ inflight' = [inflight EXCEPT ![c] =
                               Done(call, ForeignKey("student_aspirations",
                                                     input.student_id), <<>>)]
                         /\ UNCHANGED aspirations
          /\ UNCHANGED <<schools, teachers, classes, students, transactions>>
    /\ UNCHANGED <<now, resp>>

(* db.update(table).set(...).where(eq(table.id, input.id)).returning() *)
(* and what the handler makes of result[0]: with no row of that id the *)
(* statement updates nothing and returns no row; updateClass then      *)
(* returns undefined, the two others read a field of undefined.        *)
Update(c) ==
    LET call == inflight[c]
        input == call.args
    IN
    /\ call.pc = "write"
    /\ \/ /\ call.op = "updateClass"
          /\ IF input.id \notin DOMAIN classes
             THEN /\ inflight' = [inflight EXCEPT ![c] = Done(call, NoError, <<>>)]
                  /\ UNCHANGED classes
             ELSE LET old == classes[input.id]
                      row == [name |-> IF input.name # NULL
                                       THEN Val(input.name) ELSE old.name,
                              homeroom_teacher_id |->
                                 SetNullable(old.homeroom_teacher_id,
                                             input.homeroom_teacher_id),
                              updated_at |-> now]
                  IN  IF Resolves(row.homeroom_teacher_id, teachers)
                      THEN /\ classes' = [classes EXCEPT ![input.id] = row]
                           /\ inflight' = [inflight EXCEPT ![c] =
                                 Done(call, NoError, <<[id |-> input.id] @@ row>>)]
                      ELSE /\ inflight' = [inflight EXCEPT ![c] =
                                 Done(call, ForeignKey("classes",
                                                       Val(row.homeroom_teacher_id)),
                                      <<>>)]
                           /\ UNCHANGED classes
          /\ UNCHANGED <<schools, teachers, students, transactions, aspirations>>
       \/ /\ call.op = "updateTransaction"
          /\ IF input.id \notin DOMAIN transactions
             THEN /\ inflight' = [inflight EXCEPT ![c] =
                        Done(call, StoreError("type_error"), <<>>)]
                  /\ UNCHANGED transactions
             ELSE LET old == transactions[input.id]
                      row == [old EXCEPT
                                !.date = IF input.date # NULL
                                         THEN Val(input.date) ELSE @,
                                !.type = IF input.type # NULL
                                         THEN Val(input.type) ELSE @,
                                !.amount = IF input.amount # NULL
                                           THEN ToNumeric(Val(input.amount)) ELSE @,
                                !.notes = IF input.notes # NULL
                                          THEN Val(input.notes) ELSE @,
                                !.student_id = IF input.student_id # NULL
                                               THEN Val(input.student_id) ELSE @]
                  IN  IF Resolves(Some(row.student_id), students)
                      THEN /\ transactions' = [transactions EXCEPT ![input.id] = row]
                           /\ inflight' = [inflight EXCEPT ![c] =
                                 Done(call, NoError, <<Returned(input.id, row)>>)]
                      ELSE /\ inflight' = [inflight EXCEPT ![c] =
                                 Done(call, ForeignKey("transactions", row.student_id),
                                      <<>>)]
                           /\ UNCHANGED transactions
          /\ UNCHANGED <<schools, teachers, classes, students, aspirations>>
       \/ /\ call.op = "updateStudentAspiration"
          /\ IF input.id \notin DOMAIN aspirations
             THEN /\ inflight' = [inflight EXCEPT ![c] =
                        Done(call, StoreError("type_error"), <<>>)]
                  /\ UNCHANGED aspirations
             ELSE LET old == aspirations[input.id]
                      row == [old EXCEPT
                                !.description = IF input.description # NULL
                                                THEN Val(input.description) ELSE @,
                                !.target_amount = IF input.target_amount # NULL
                                                  THEN ToNumeric(Val(input.target_amount))
                                                  ELSE @,
                                !.student_id = IF input.student_id # NULL
                                               THEN Val(input.student_id) ELSE @]
                  IN  IF Resolves(Some(row.student_id), students)
                      THEN /\ aspirations' = [aspirations EXCEPT ![input.id] = row]
                           /\ inflight' = [inflight EXCEPT ![c] =
                                 Done(call, NoError,
                                      <<ReturnedAspiration(input.id, row)>>)]
                      ELSE /\ inflight' = [inflight EXCEPT ![c] =
                                 Done(call, ForeignKey("student_aspirations",
                                                       row.student_id), <<>>)]
                           /\ UNCHANGED aspirations
          /\ UNCHANGED <<schools, teachers, classes, students, transactions>>
    /\ UNCHANGED <<nextId, now, resp>>

(* db.delete(table).where(eq(table.id, id)): a row something refers to *)
(* is the store's foreign-key violation, no row of that id deletes     *)
(* nothing.  deleteTeacher and deleteStudent ask for the deleted rows  *)
(* (.returning()) and throw when there is none; the three others do    *)
(* not look at the outcome of the statement.                           *)
Delete(c) ==
    LET call == inflight[c]
        id == call.args.id
    IN
    /\ call.pc = "write"
    /\ \/ /\ call.op = "deleteTeacher"
          /\ IF id \notin DOMAIN teachers
             THEN /\ inflight' = [inflight EXCEPT ![c] =
                        Done(call, NotFound("Teacher", id), <<>>)]
                  /\ UNCHANGED teachers
             ELSE IF ClassesOf(id) # {}
             THEN /\ inflight' = [inflight EXCEPT ![c] =
                        Done(call, ForeignKey("classes", id), <<>>)]
                  /\ UNCHANGED teachers
             ELSE /\ teachers' = [t \in DOMAIN teachers \ {id} |-> teachers[t]]
                  /\ inflight' = [inflight EXCEPT ![c] = Done(call, NoError, <<>>)]
          /\ UNCHANGED <<schools, classes, students, transactions, aspirations>>
       \/ /\ call.op = "deleteClass"
          /\ IF id \in DOMAIN classes /\ StudentsOf(id) # {}
             THEN /\ inflight' = [inflight EXCEPT ![c] =
                        Done(call, ForeignKey("students", id), <<>>)]
                  /\ UNCHANGED classes
             ELSE /\ classes' = [x \in DOMAIN classes \ {id} |-> classes[x]]
                  /\ inflight' = [inflight EXCEPT ![c] = Done(call, NoError, <<>>)]
          /\ UNCHANGED <<schools, teachers, students, transactions, aspirations>>
       \/ /\ call.op = "deleteStudent"
          /\ IF id \notin DOMAIN students
             THEN /\ inflight' = [inflight EXCEPT ![c] =
                        Done(call, NotFound("Student", id), <<>>)]
                  /\ UNCHANGED students
             ELSE IF TransactionsOf(id) # {} \/ AspirationsOf(id) # {}
             THEN /\ inflight' = [inflight EXCEPT ![c] =
                        Done(call, ForeignKey(IF TransactionsOf(id) # {}
                                              THEN "transactions"
                                              ELSE "student_aspirations", id), <<>>)]
                  /\ UNCHANGED students
             ELSE /\ students' = [x \in DOMAIN students \ {id} |-> students[x]]
                  /\ inflight' = [inflight EXCEPT ![c] = Done(call, NoError, <<>>)]
          /\ UNCHANGED <<schools, teachers, classes, transactions, aspirations>>
       \/ /\ call.op = "deleteTransaction"
          /\ transactions' = [t \in DOMAIN transactions \ {id} |-> transactions[t]]
          /\ inflight' = [inflight EXCEPT ![c] = Done(call, NoError, <<>>)]
          /\ UNCHANGED <<schools, teachers, classes, students, aspirations>>
       \/ /\ call.op = "deleteStudentAspiration"
          /\ aspirations' = [a \in DOMAIN aspirations \ {id} |-> aspirations[a]]
          /\ inflight' = [inflight EXCEPT ![c] = Done(call, NoError, <<>>)]
          /\ UNCHANGED <<schools, teachers, classes, students, transactions>>
    /\ UNCHANGED <<nextId, now, resp>>

NextRace ==
    \E c \in Clients :
       \/ FindOwn(c)
       \/ FindReferred(c)
       \/ Insert(c)
       \/ Update(c)
       \/ Delete(c)

SpecRace == InitRace /\ [][NextRace]_vars

----------------------------------------------------------------------------
(* The reads of the balance, report and leaderboard handlers over the   *)
(* ledger of the queries above.  A client that holds the reply of a     *)
(* read may make the same read again at once, so that a read is also    *)
(* made twice on the same store.                                        *)

ReadOps ==
    {"getStudentBalance", "getTransactions", "getTransactionsByStudent",
     "getTransactionsByClass", "getTransactionsByTeacher", "getTransactionReport",
     "getStudentLeaderboard", "getClassLeaderboard", "getStudentLeaderboardByClass",
     "getStudentLeaderboardByTeacher"}

(* the client is idle, or holds the reply of this very read and makes *)
(* it again                                                           *)
MayRead(op, args) == resp = Idle \/ (resp.op = op /\ resp.args = args)

Reads ==
    \/ \E id \in StudentIdArgs :
          MayRead("getStudentBalance", [id |-> id]) /\ getStudentBalance(id)
    \/ \E filter \in [student_id : Opt({1}), class_id : {NULL}, start_date : {NULL},
                      end_date : {NULL}, type : Opt(Types)] :
          MayRead("getTransactions", filter) /\ getTransactions(filter)
    \/ \E id \in StudentIdArgs :
          MayRead("getTransactionsByStudent", [id |-> id]) /\ getTransactionsByStudent(id)
    \/ \E id \in {1, 3} :
          MayRead("getTransactionsByClass", [id |-> id]) /\ getTransactionsByClass(id)
    \/ \E id \in {1, 2} :
          MayRead("getTransactionsByTeacher", [id |-> id]) /\ getTransactionsByTeacher(id)
    \/ \E filter \in [student_id : {NULL}, class_id : Opt({1}), start_date : {NULL},
                      end_date : {NULL}, type : {NULL}] :
          MayRead("getTransactionReport", filter) /\ getTransactionReport(filter)
    \/ \E limit \in Limits :
          MayRead("getStudentLeaderboard", [limit |-> limit])
          /\ getStudentLeaderboard(limit)
    \/ \E limit \in Limits :
          MayRead("getClassLeaderboard", [limit |-> limit]) /\ getClassLeaderboard(limit)
    \/ \E limit \in Limits :
          MayRead("getStudentLeaderboardByClass", [id |-> 1, limit |-> limit])
          /\ getStudentLeaderboardByClass(1, limit)
    \/ \E limit \in Limits :
          MayRead("getStudentLeaderboardByTeacher", [id |-> 1, limit |-> limit])
          /\ getStudentLeaderboardByTeacher(1, limit)

NextReads ==
    \/ QueryWrite
    \/ Reads
    \/ Return

SpecReads == InitQueries /\ [][NextReads]_vars

----------------------------------------------------------------------------
(* What the store holds, counted entry by entry from the ledger *)

RECURSIVE LedgerTotal(_, _, _)
LedgerTotal(S, type, n) ==
    IF n = 0 THEN 0
    ELSE LedgerTotal(S, type, n - 1)
         + (IF /\ n \in DOMAIN transactions
               /\ transactions[n].student_id \in S
               /\ transactions[n].type = type
            THEN transactions[n].amount ELSE 0)

Deposits(S) == LedgerTotal(S, "deposit", nextId.transactions - 1)
Withdrawals(S) == LedgerTotal(S, "withdrawal", nextId.transactions - 1)
Net(S) == Deposits(S) - Withdrawals(S)
Entries(S) == Cardinality({t \in DOMAIN transactions : transactions[t].student_id \in S})

ActiveStudents == {s \in DOMAIN students : students[s].status = "active"}
ActiveIn(c) == {s \in ActiveStudents : students[s].class_id = c}
ActiveUnder(t) ==
    {s \in ActiveStudents :
        \E c \in DOMAIN classes : /\ students[s].class_id = c
                                  /\ classes[c].homeroom_teacher_id = Some(t)}

StudentBoardOps ==
    {"getStudentLeaderboard", "getStudentLeaderboardByClass",
     "getStudentLeaderboardByTeacher"}
BoardOps == StudentBoardOps \cup {"getClassLeaderboard"}

RowIndex == 1..Len(resp.rows)
RowSet == {resp.rows[i] : i \in RowIndex}

(* the fraction q is num/den *)
SameFraction(q, num, den) == q[2] > 0 /\ q[1] * den = num * q[2]
(* the average of the signed amounts of the entries of the students S *)
IsAverageOf(q, S) ==
    IF Entries(S) = 0 THEN q = <<0, 1>> ELSE SameFraction(q, Net(S), Entries(S))

NonIncreasing ==
    \A i, j \in RowIndex :
        i < j => FLeq(resp.rows[j].total_deposits, resp.rows[i].total_deposits)

----------------------------------------------------------------------------
(* Balance *)

(* C1: for every existing student, whatever the status, the number       *)
(* getStudentBalance returns is the sum of the student's stored deposits *)
(* minus the sum of the stored withdrawals, as a decimal (0 when the     *)
(* student has no transaction), after any sequence of createTransaction, *)
(* updateTransaction and deleteTransaction.                              *)
BalanceIsDepositsMinusWithdrawals ==
    (resp.op = "getStudentBalance" /\ resp.args.id \in DOMAIN students) =>
        /\ resp.error = NoError
        /\ resp.num = Some(ParseFloat(Net({resp.args.id})))

(* C6: getStudentBalance with an id that matches no student fails with *)
(* a not-found error naming that id, returns no number, and leaves the *)
(* store as it was.                                                    *)
UnknownStudentBalanceFails ==
    [][(resp'.op = "getStudentBalance" /\ resp'.args.id \notin DOMAIN students) =>
          /\ resp'.error = NotFound("Student", resp'.args.id)
          /\ resp'.num = NULL
          /\ store' = store]_vars

UnknownStudentBalanceFailsWitness ==
    /\ resp.op = "getStudentBalance"
    /\ resp.args.id \notin DOMAIN students
    /\ resp.error.kind = "not_found"
    /\ DOMAIN transactions # {}

----------------------------------------------------------------------------
(* Leaderboards *)

(* C2: getStudentLeaderboard without a limit returns exactly one row per *)
(* active student, with the student's id and name, the name of the       *)
(* student's class, the sum of the student's deposits, the number of the *)
(* student's transactions of both types and the deposits minus the       *)
(* withdrawals; an active student without transactions has a row of      *)
(* zeros.                                                                *)
StudentLeaderboardIsActiveStudents ==
    (resp.op = "getStudentLeaderboard" /\ resp.args.limit = NULL) =>
        /\ Len(resp.rows) = Cardinality(ActiveStudents)
        /\ {r.student_id : r \in RowSet} = ActiveStudents
        /\ \A r \in RowSet :
              LET s == r.student_id IN
              /\ r.student_name = students[s].name
              /\ r.class_name = classes[students[s].class_id].name
              /\ r.total_deposits = ParseFloat(Deposits({s}))
              /\ r.transaction_count = Entries({s})
              /\ r.current_balance = ParseFloat(Net({s}))
              /\ Entries({s}) = 0 =>
                    /\ r.total_deposits = ParseFloat(0)
                    /\ r.transaction_count = 0
                    /\ r.current_balance = ParseFloat(0)

StudentLeaderboardIsActiveStudentsWitness ==
    /\ resp.op = "getStudentLeaderboard"
    /\ resp.args.limit = NULL
    /\ \E r \in RowSet : r.transaction_count = 0
    /\ \E r \in RowSet : /\ r.transaction_count = 2
                         /\ r.current_balance # r.total_deposits

(* C3: a student who is not active has no row in any student leaderboard *)
(* and adds nothing to the total_deposits, total_students or             *)
(* average_balance of the student's class, although the student's        *)
(* transactions are still in the ledger.                                 *)
LeaderboardsIgnoreInactiveStudents ==
    /\ resp.op \in StudentBoardOps =>
          \A r \in RowSet : r.student_id \in ActiveStudents
    /\ resp.op = "getClassLeaderboard" =>
          \A r \in RowSet :
              LET A == ActiveIn(r.class_id) IN
              /\ r.total_deposits = ParseFloat(Deposits(A))
              /\ r.total_students = Cardinality(A)
              /\ IsAverageOf(r.average_balance, A)

LeaderboardsIgnoreInactiveStudentsWitness ==
    /\ resp.op = "getClassLeaderboard"
    /\ \E s \in DOMAIN students \ ActiveStudents :
          /\ Deposits({s}) > 0
          /\ \E r \in RowSet : /\ r.class_id = students[s].class_id
                               /\ r.total_students = 1
                               /\ r.total_deposits # ParseFloat(0)

(* C4: each of the four leaderboards comes in non-increasing order of *)
(* total_deposits.                                                    *)
LeaderboardsAreRanked ==
    resp.op \in BoardOps => NonIncreasing

LeaderboardsAreRankedWitness ==
    /\ resp.op \in BoardOps
    /\ Len(resp.rows) = 2
    /\ resp.rows[1].total_deposits # resp.rows[2].total_deposits

(* the number of rows a leaderboard call has without a limit *)
UnlimitedRows ==
    IF resp.op = "getStudentLeaderboard" THEN Cardinality(ActiveStudents)
    ELSE IF resp.op = "getClassLeaderboard" THEN Cardinality(DOMAIN classes)
    ELSE IF resp.op = "getStudentLeaderboardByClass"
    THEN Cardinality(ActiveIn(resp.args.id))
    ELSE Cardinality(ActiveUnder(resp.args.id))

(* C5: a leaderboard called with a limit N >= 0 returns exactly        *)
(* min(N, M) rows, M being the number of rows of the same call without *)
(* a limit, and the rows it keeps are still in order; without a limit  *)
(* it returns all M rows.                                              *)
LimitKeepsFirstRows ==
    resp.op \in BoardOps =>
        /\ NonIncreasing
        /\ Len(resp.rows) = IF resp.args.limit = NULL THEN UnlimitedRows
                            ELSE IF Val(resp.args.limit) < UnlimitedRows
                            THEN Val(resp.args.limit)
                            ELSE UnlimitedRows

(* C7: getStudentLeaderboardByClass with an id of no class, and         *)
(* getStudentLeaderboardByTeacher with an id of no teacher or of a      *)
(* teacher who is homeroom teacher of no class, return the empty list   *)
(* and no error.                                                        *)
UnknownScopeGivesEmptyBoard ==
    /\ (resp.op = "getStudentLeaderboardByClass"
        /\ resp.args.id \notin DOMAIN classes) =>
          resp.error = NoError /\ resp.rows = <<>>
    /\ (resp.op = "getStudentLeaderboardByTeacher"
        /\ (resp.args.id \notin DOMAIN teachers
            \/ \A c \in DOMAIN classes :
                  classes[c].homeroom_teacher_id # Some(resp.args.id))) =>
          resp.error = NoError /\ resp.rows = <<>>

UnknownScopeGivesEmptyBoardWitness ==
    /\ resp.op = "getStudentLeaderboardByTeacher"
    /\ resp.args.id \notin DOMAIN teachers
    /\ resp.rows = <<>>
    /\ \E s \in ActiveStudents : Deposits({s}) > 0
    /\ \E c \in DOMAIN classes : classes[c].homeroom_teacher_id # NULL

(* the rows of getStudentLeaderboard() without a limit *)
Board ==
    UNION {{q[i] : i \in 1..Len(q)} : q \in StudentLeaderboardResults(NULL)}

(* C8: without a limit, getStudentLeaderboardByClass(c) returns exactly *)
(* the rows of getStudentLeaderboard() of the students of class c, and  *)
(* getStudentLeaderboardByTeacher(t) exactly those of the students of   *)
(* every class whose homeroom teacher is t, field by field.             *)
ScopedBoardsAreSlicesOfTheBoard ==
    /\ (resp.op = "getStudentLeaderboardByClass" /\ resp.args.limit = NULL) =>
          LET slice == {r \in Board : students[r.student_id].class_id = resp.args.id}
          IN  RowSet = slice /\ Len(resp.rows) = Cardinality(slice)
    /\ (resp.op = "getStudentLeaderboardByTeacher" /\ resp.args.limit = NULL) =>
          LET slice == {r \in Board :
                           classes[students[r.student_id].class_id].homeroom_teacher_id
                              = Some(resp.args.id)}
          IN  RowSet = slice /\ Len(resp.rows) = Cardinality(slice)

ScopedBoardsAreSlicesOfTheBoardWitness ==
    /\ resp.op = "getStudentLeaderboardByTeacher"
    /\ resp.args.limit = NULL
    /\ Len(resp.rows) = 2
    /\ resp.rows[1].class_name # resp.rows[2].class_name
    /\ \E r \in RowSet : r.transaction_count > 0

(* C9: getClassLeaderboard without a limit returns exactly one row per *)
(* class, with the sum of the deposits of the class's active students  *)
(* and the number of its active students; a class without active       *)
(* students has a row with 0 deposits, 0 students and average 0.       *)
ClassLeaderboardIsEveryClass ==
    (resp.op = "getClassLeaderboard" /\ resp.args.limit = NULL) =>
        /\ Len(resp.rows) = Cardinality(DOMAIN classes)
        /\ {r.class_id : r \in RowSet} = DOMAIN classes
        /\ \A r \in RowSet :
              LET A == ActiveIn(r.class_id) IN
              /\ r.class_name = classes[r.class_id].name
              /\ r.total_deposits = ParseFloat(Deposits(A))
              /\ r.total_students = Cardinality(A)
              /\ A = {} => /\ r.total_deposits = ParseFloat(0)
                           /\ r.total_students = 0
                           /\ r.average_balance = <<0, 1>>

ClassLeaderboardIsEveryClassWitness ==
    /\ resp.op = "getClassLeaderboard"
    /\ resp.args.limit = NULL
    /\ \E r \in RowSet : /\ r.total_students = 0
                         /\ \E s \in DOMAIN students :
                               students[s].class_id = r.class_id /\ Entries({s}) > 0
    /\ \E r \in RowSet : r.total_students = 1 /\ r.total_deposits # ParseFloat(0)

(* C10: the average_balance of a class row is the sum of the signed    *)
(* amounts of the transactions of the class's active students divided  *)
(* by the number of those transactions (not of the students), and 0    *)
(* when there is none.                                                 *)
AverageBalanceIsPerTransaction ==
    resp.op = "getClassLeaderboard" =>
        \A r \in RowSet : IsAverageOf(r.average_balance, ActiveIn(r.class_id))

AverageBalanceIsPerTransactionWitness ==
    /\ resp.op = "getClassLeaderboard"
    /\ \E r \in RowSet : /\ r.total_students = 2
                         /\ Entries(ActiveIn(r.class_id)) = 1
                         /\ r.average_balance[1] # 0
    /\ \E r \in RowSet : r.total_students = 0 /\ r.average_balance = <<0, 1>>

----------------------------------------------------------------------------
(* Transaction queries *)

(* the transaction t satisfies every field the filter supplies *)
Satisfies(t, filter) ==
    LET tx == transactions[t] IN
    /\ filter.student_id # NULL => tx.student_id = Val(filter.student_id)
    /\ filter.class_id # NULL => students[tx.student_id].class_id = Val(filter.class_id)
    /\ filter.start_date # NULL => tx.date >= Val(filter.start_date)
    /\ filter.end_date # NULL => tx.date <= Val(filter.end_date)
    /\ filter.type # NULL => tx.type = Val(filter.type)

(* the transaction ids of the rows of a reply, and whether each id *)
(* comes once                                                      *)
RowIds ==
    {IF resp.op = "getTransactionReport" THEN r.transaction_id ELSE r.id : r \in RowSet}
OncePerId == Len(resp.rows) = Cardinality(RowIds)

(* the row r gives the stored fields of its transaction *)
IsStored(r) ==
    /\ r.id \in DOMAIN transactions
    /\ r = [id |-> r.id,
            date |-> transactions[r.id].date,
            type |-> transactions[r.id].type,
            amount |-> ParseFloat(transactions[r.id].amount),
            notes |-> transactions[r.id].notes,
            student_id |-> transactions[r.id].student_id,
            updated_at |-> transactions[r.id].updated_at]

(* C11: getTransactions(filter) and getTransactionReport(filter) return *)
(* exactly the transactions that satisfy every supplied field of the    *)
(* filter at once (student, class of the student, start and end date    *)
(* inclusive, type), and every transaction for the empty filter.        *)
FilterSelectsExactly ==
    resp.op \in {"getTransactions", "getTransactionReport"} =>
        /\ resp.error = NoError
        /\ RowIds = {t \in DOMAIN transactions : Satisfies(t, resp.args)}
        /\ OncePerId

(* C12: getTransactionReport has one row per transaction it reports,   *)
(* drops no transaction that matches the filter, and each row carries  *)
(* the transaction's id, date, type, amount and notes with the name of *)
(* its student and of that student's current class.                    *)
ReportRowsAreTransactions ==
    resp.op = "getTransactionReport" =>
        /\ OncePerId
        /\ {t \in DOMAIN transactions : Satisfies(t, resp.args)} \subseteq RowIds
        /\ \A r \in RowSet :
              /\ r.transaction_id \in DOMAIN transactions
              /\ LET tx == transactions[r.transaction_id] IN
                 /\ r.date = tx.date
                 /\ r.type = tx.type
                 /\ r.amount = ParseFloat(tx.amount)
                 /\ r.notes = tx.notes
                 /\ r.student_name = students[tx.student_id].name
                 /\ r.class_name = classes[students[tx.student_id].class_id].name

ReportRowsAreTransactionsWitness ==
    /\ resp.op = "getTransactionReport"
    /\ Len(resp.rows) = 2
    /\ Supplied(resp.args) = {"type"}
    /\ \E r \in RowSet : r.student_name = "Alice" /\ r.class_name = "Class B"
    /\ \E r \in RowSet : r.student_name = "Bob"

(* C13: getTransactionsByTeacher(t) returns exactly the transactions of *)
(* the students whose class has homeroom teacher t, and                 *)
(* getTransactionsByClass(c) exactly those of the students of class c;  *)
(* both return the empty list, not an error, when nothing matches.      *)
ScopedTransactionsAreExact ==
    /\ resp.op = "getTransactionsByTeacher" =>
          /\ resp.error = NoError
          /\ OncePerId
          /\ \A r \in RowSet : IsStored(r)
          /\ RowIds = {t \in DOMAIN transactions :
                          classes[students[transactions[t].student_id].class_id]
                             .homeroom_teacher_id = Some(resp.args.id)}
    /\ resp.op = "getTransactionsByClass" =>
          /\ resp.error = NoError
          /\ OncePerId
          /\ \A r \in RowSet : IsStored(r)
          /\ RowIds = {t \in DOMAIN transactions :
                          students[transactions[t].student_id].class_id = resp.args.id}

ScopedTransactionsAreExactWitness ==
    /\ resp.op = "getTransactionsByTeacher"
    /\ Len(resp.rows) = 1
    /\ Cardinality(DOMAIN transactions) = 2

ScopedTransactionsAreEmptyWitness ==
    /\ resp.op = "getTransactionsByTeacher"
    /\ resp.args.id \in DOMAIN teachers
    /\ resp.rows = <<>>
    /\ DOMAIN transactions # {}

----------------------------------------------------------------------------
(* Writes of transactions *)

(* a call is the step from the idle client to the reply of op *)
Calls(op) == resp = Idle /\ resp'.op = op

CreateTransactionUnknownStudentWitness ==
    /\ resp.op = "createTransaction"
    /\ resp.error = NotFound("Student", 3)

(* C15: updateTransaction fails with a not-found error and changes no   *)
(* transaction when no transaction has the id, and also when the        *)
(* supplied student_id is the id of no student: the student is looked   *)
(* up before the write.                                                 *)
UpdateTransactionChecksFirst ==
    [][Calls("updateTransaction") =>
        LET input == resp'.args IN
        (\/ input.id \notin DOMAIN transactions
         \/ /\ input.student_id # NULL
            /\ Val(input.student_id) \notin DOMAIN students)
        => /\ resp'.error.kind = "not_found"
           /\ transactions' = transactions
    ]_vars

----------------------------------------------------------------------------
(* Updates *)

UpdateOps ==
    {"updateSchool", "updateTeacher", "updateClass", "updateStudent",
     "updateTransaction", "updateStudentAspiration"}

(* the table an update operation writes *)
Rows(op) ==
    CASE op = "updateSchool" -> schools
      [] op = "updateTeacher" -> teachers
      [] op = "updateClass" -> classes
      [] op = "updateStudent" -> students
      [] op = "updateTransaction" -> transactions
      [] op = "updateStudentAspiration" -> aspirations

(* the stored value v of column f is the one the input gives: amounts *)
(* are given in thousandths and stored in hundredths                  *)
IsGiven(f, v, input) ==
    IF f \in {"amount", "target_amount"}
    THEN 10 * v = Val(input[f])
    ELSE v = Val(input[f])

(* C17: every successful update sets the row's updated_at to the time *)
(* of the update, later than the value stored before, whatever fields *)
(* the input supplies.                                                *)
UpdatesRefreshUpdatedAt ==
    [][\A op \in UpdateOps :
          (Calls(op) /\ resp'.error = NoError) =>
              LET id == resp'.args.id
                  before == Rows(op)
                  after == Rows(op)'
              IN  /\ after[id].updated_at = now
                  /\ after[id].updated_at > before[id].updated_at
    ]_vars

(* C18: an update changes, besides updated_at, only the fields its      *)
(* input supplies: a field absent from the input keeps its value, a     *)
(* supplied field takes the given value, null included for a nullable   *)
(* field, and no other row of any table changes.                        *)
UpdatesChangeOnlySupplied ==
    [][\A op \in UpdateOps :
          Calls(op) =>
              LET input == resp'.args
                  before == Rows(op)
                  after == Rows(op)'
              IN  /\ DOMAIN after = DOMAIN before
                  /\ \A i \in DOMAIN before \ {input.id} : after[i] = before[i]
                  /\ \A o \in UpdateOps \ {op} : Rows(o)' = Rows(o)
                  /\ input.id \in DOMAIN before =>
                        \A f \in DOMAIN before[input.id] \ {"updated_at"} :
                            IF f \in Supplied(input) /\ resp'.error = NoError
                            THEN IsGiven(f, after[input.id][f], input)
                            ELSE after[input.id][f] = before[input.id][f]
    ]_vars

UpdatesChangeOnlySuppliedWitness ==
    /\ resp.op = "updateClass"
    /\ resp.error = NoError
    /\ resp.args.homeroom_teacher_id = Some(NULL)
    /\ resp.args.name = NULL
    /\ classes[1].homeroom_teacher_id = NULL
    /\ classes[1].name = "Class A"
    /\ schools[1].phone = NULL

----------------------------------------------------------------------------
(* Deletes and references *)

DeleteOps ==
    {"deleteTeacher", "deleteClass", "deleteStudent", "deleteTransaction",
     "deleteStudentAspiration"}
GetOps ==
    {"getTeacher", "getClass", "getStudent", "getTransaction", "getStudentAspiration"}

(* the table a delete or a get by id works on *)
Held(op) ==
    CASE op \in {"deleteTeacher", "getTeacher"} -> teachers
      [] op \in {"deleteClass", "getClass"} -> classes
      [] op \in {"deleteStudent", "getStudent"} -> students
      [] op \in {"deleteTransaction", "getTransaction"} -> transactions
      [] op \in {"deleteStudentAspiration", "getStudentAspiration"} -> aspirations

(* some row refers to the row id of the table of op *)
IsReferenced(op, id) ==
    CASE op = "deleteTeacher" ->
            \E c \in DOMAIN classes : classes[c].homeroom_teacher_id = Some(id)
      [] op = "deleteClass" -> \E x \in DOMAIN students : students[x].class_id = id
      [] op = "deleteStudent" ->
            \/ \E t \in DOMAIN transactions : transactions[t].student_id = id
            \/ \E a \in DOMAIN aspirations : aspirations[a].student_id = id
      [] OTHER -> FALSE

(* C16: a delete of an id that has no row fails with a not-found error *)
(* and leaves the store as it was; a delete of a row nothing refers to *)
(* removes that row and no other; a get by id of an id that has no row *)
(* (so also of a deleted one) gives null.                              *)
DeleteRemovesExactlyTheRow ==
    [][/\ \A op \in DeleteOps :
             Calls(op) =>
                 LET id == resp'.args.id IN
                 IF id \notin DOMAIN Held(op)
                 THEN /\ resp'.error.kind = "not_found"
                      /\ resp'.error.id = id
                      /\ store' = store
                 ELSE ~IsReferenced(op, id) =>
                      /\ resp'.error = NoError
                      /\ Held(op)' = [i \in DOMAIN Held(op) \ {id} |-> Held(op)[i]]
                      /\ \A o \in DeleteOps \ {op} : Held(o)' = Held(o)
       /\ \A op \in GetOps :
             Calls(op) =>
                 /\ resp'.error = NoError
                 /\ resp'.args.id \notin DOMAIN Held(op) => resp'.rows = <<>>
                 /\ resp'.args.id \in DOMAIN Held(op) => Len(resp'.rows) = 1
    ]_vars

DeleteRemovesExactlyTheRowWitness ==
    /\ resp.op = "getStudent"
    /\ resp.args.id = 1
    /\ resp.rows = <<>>
    /\ 2 \in DOMAIN students

(* C19: in every state, whatever calls succeeded or failed before, the   *)
(* student_id of every transaction and aspiration is the id of a         *)
(* student, the class_id of every student the id of a class, and the     *)
(* homeroom_teacher_id of every class null or the id of a teacher.       *)
ReferencesResolve ==
    /\ \A t \in DOMAIN transactions : transactions[t].student_id \in DOMAIN students
    /\ \A a \in DOMAIN aspirations : aspirations[a].student_id \in DOMAIN students
    /\ \A x \in DOMAIN students : students[x].class_id \in DOMAIN classes
    /\ \A c \in DOMAIN classes :
          \/ classes[c].homeroom_teacher_id = NULL
          \/ Val(classes[c].homeroom_teacher_id) \in DOMAIN teachers

ReferencesResolveWitness ==
    /\ resp.op = "deleteTeacher"
    /\ resp.error.kind = "foreign_key"
    /\ resp.args.id = 2
    /\ classes[1].homeroom_teacher_id = Some(2)
    /\ 1 \notin DOMAIN teachers

----------------------------------------------------------------------------
(* Unique values *)

(* no two rows of the table have the same value of column f *)
IsUnique(table, f) ==
    \A i, j \in DOMAIN table : table[i][f] = table[j][f] => i = j

(* a row other than the caller's own has the value v of column f *)
IsTaken(table, f, v, own) == \E i \in DOMAIN table \ own : table[i][f] = v

(* an update input asks for a value of column f that another row has *)
AsksTaken(table, f, input) ==
    input[f] # NULL /\ IsTaken(table, f, Val(input[f]), {input.id})

(* C20: no two teachers have the same email and no two students the   *)
(* same nisn or the same nis; createTeacher, updateTeacher,           *)
(* createStudent and updateStudent asking for a value another row has *)
(* fail with an error and change no row.                              *)
UniqueValuesStayUnique ==
    [][/\ IsUnique(teachers, "email")'
       /\ IsUnique(students, "nisn")'
       /\ IsUnique(students, "nis")'
       /\ (Calls("createTeacher")
           /\ IsTaken(teachers, "email", resp'.args.email, {}))
          => resp'.error # NoError /\ teachers' = teachers
       /\ (Calls("updateTeacher") /\ AsksTaken(teachers, "email", resp'.args))
          => resp'.error # NoError /\ teachers' = teachers
       /\ (Calls("createStudent")
           /\ \E f \in {"nisn", "nis"} : IsTaken(students, f, resp'.args[f], {}))
          => resp'.error # NoError /\ students' = students
       /\ (Calls("updateStudent")
           /\ \E f \in {"nisn", "nis"} : AsksTaken(students, f, resp'.args))
          => resp'.error # NoError /\ students' = students
    ]_vars

UniqueValuesStayUniqueWitness ==
    /\ resp.op = "updateStudent"
    /\ resp.error.kind = "unique"
    /\ resp.args.id = 2
    /\ resp.args.nis = Some("nis1")
    /\ students[1].nis = "nis1"
    /\ students[2].nis = "nis2"
    /\ Cardinality(DOMAIN teachers) = 2

----------------------------------------------------------------------------
(* References of creates and updates *)

ReferringOps ==
    {"createClass", "updateClass", "createStudent", "updateStudent",
     "createTransaction", "updateTransaction", "createStudentAspiration",
     "updateStudentAspiration"}

(* the table the input of op refers to *)
Target(op) ==
    CASE op \in {"createClass", "updateClass"} -> teachers
      [] op \in {"createStudent", "updateStudent"} -> classes
      [] OTHER -> students

(* the id the input of op refers to, or NULL when it names none *)
Reference(op, input) ==
    CASE op = "createClass" -> input.homeroom_teacher_id
      [] op = "updateClass" ->
            IF input.homeroom_teacher_id = NULL
            THEN NULL ELSE Val(input.homeroom_teacher_id)
      [] op = "createStudent" -> Some(input.class_id)
      [] op = "updateStudent" -> input.class_id
      [] op \in {"createTransaction", "createStudentAspiration"} ->
            Some(input.student_id)
      [] OTHER -> input.student_id

(* op is an update of a row that is not there *)
UpdatesNoRow(op, input) == op \in UpdateOps /\ input.id \notin DOMAIN Rows(op)

(* C21: each of the eight creates and updates that name another row by *)
(* id looks that row up before the write: when it is not there the     *)
(* call fails with the not-found error of that id, and no insert or    *)
(* update is attempted (no row changes and no serial is used).         *)
ReferencesAreLookedUpFirst ==
    [][\A op \in ReferringOps :
          (/\ Calls(op)
           /\ ~UpdatesNoRow(op, resp'.args)
           /\ Reference(op, resp'.args) # NULL
           /\ Val(Reference(op, resp'.args)) \notin DOMAIN Target(op))
          => /\ resp'.error.kind = "not_found"
             /\ resp'.error.id = Val(Reference(op, resp'.args))
             /\ store' = store
    ]_vars

(* C28: deleteStudent of a student with a transaction or an aspiration, *)
(* deleteClass of a class with a student and deleteTeacher of the       *)
(* homeroom teacher of a class fail with an error and leave that row    *)
(* and every row that refers to it in the store: nothing cascades.      *)
ReferencedRowsStay ==
    [][\A op \in {"deleteStudent", "deleteClass", "deleteTeacher"} :
          (/\ Calls(op)
           /\ resp'.args.id \in DOMAIN Held(op)
           /\ IsReferenced(op, resp'.args.id))
          => /\ resp'.error # NoError
             /\ store' = store
    ]_vars

ReferencedRowsStayWitness ==
    /\ resp.op = "deleteClass"
    /\ resp.error.kind = "foreign_key"
    /\ resp.args.id = 2
    /\ 2 \in DOMAIN classes
    /\ \E x \in DOMAIN students : students[x].class_id = 2

----------------------------------------------------------------------------
(* Scoped lookups *)

ListOps ==
    {"getAspirationsByStudent", "getAspirationsByClass", "getAspirationsByTeacher",
     "getClassesByTeacher"}

(* the table of the student, class or teacher the lookup names *)
Scope(op) ==
    CASE op = "getAspirationsByStudent" -> students
      [] op = "getAspirationsByClass" -> classes
      [] OTHER -> teachers

(* the ids of the rows that belong to id *)
Belonging(op, id) ==
    CASE op = "getAspirationsByStudent" ->
            {a \in DOMAIN aspirations : aspirations[a].student_id = id}
      [] op = "getAspirationsByClass" ->
            {a \in DOMAIN aspirations :
                students[aspirations[a].student_id].class_id = id}
      [] op = "getAspirationsByTeacher" ->
            {a \in DOMAIN aspirations :
                classes[students[aspirations[a].student_id].class_id]
                   .homeroom_teacher_id = Some(id)}
      [] op = "getClassesByTeacher" ->
            {c \in DOMAIN classes : classes[c].homeroom_teacher_id = Some(id)}

(* the row r is the stored row of its id *)
IsHeld(op, r) ==
    IF op = "getClassesByTeacher"
    THEN r = [id |-> r.id] @@ classes[r.id]
    ELSE r = [id |-> r.id,
              description |-> aspirations[r.id].description,
              target_amount |-> ParseFloat(aspirations[r.id].target_amount),
              student_id |-> aspirations[r.id].student_id,
              updated_at |-> aspirations[r.id].updated_at]

(* C25: getAspirationsByStudent, getAspirationsByClass,                *)
(* getAspirationsByTeacher and getClassesByTeacher fail with the       *)
(* not-found error of the id when no student, class or teacher has it; *)
(* otherwise they return, without error, exactly the aspirations or    *)
(* classes that belong to it, each once, the empty list when there are *)
(* none.                                                               *)
ScopedLookupsAreExact ==
    resp.op \in ListOps =>
        IF resp.args.id \notin DOMAIN Scope(resp.op)
        THEN /\ resp.error.kind = "not_found"
             /\ resp.error.id = resp.args.id
        ELSE /\ resp.error = NoError
             /\ {r.id : r \in RowSet} = Belonging(resp.op, resp.args.id)
             /\ Len(resp.rows) = Cardinality(Belonging(resp.op, resp.args.id))
             /\ \A r \in RowSet : IsHeld(resp.op, r)

ScopedLookupsAreExactWitness ==
    /\ resp.op = "getAspirationsByTeacher"
    /\ resp.args.id = 2
    /\ Len(resp.rows) = 1
    /\ 1 \in DOMAIN teachers

ScopedLookupsAreEmptyWitness ==
    /\ resp.op = "getAspirationsByStudent"
    /\ resp.error = NoError
    /\ resp.rows = <<>>
    /\ aspirations # <<>>

----------------------------------------------------------------------------
(* Balances below zero *)

(* C24: createTransaction stores a withdrawal of an existing student    *)
(* whatever the student's balance is, and when the withdrawals of a     *)
(* student exceed the deposits getStudentBalance returns, without       *)
(* error, the negative balance: a number below zero whose hundredths    *)
(* are deposits minus withdrawals.                                      *)
WithdrawalsMayOverdraw ==
    [][/\ \A s \in DOMAIN students :
            (/\ Calls("createTransaction")
             /\ resp'.args.type = "withdrawal"
             /\ resp'.args.student_id = s)
            => /\ resp'.error = NoError
               /\ Cardinality(DOMAIN transactions')
                     = Cardinality(DOMAIN transactions) + 1
               /\ Withdrawals({s})'
                     = Withdrawals({s}) + ToNumeric(resp'.args.amount)
       /\ (/\ Calls("getStudentBalance")
           /\ resp'.args.id \in DOMAIN students
           /\ Net({resp'.args.id}) < 0)
          => /\ resp'.error = NoError
             /\ resp'.num # NULL
             /\ Val(resp'.num)[1] = Net({resp'.args.id})
             /\ FLeq(Val(resp'.num), ParseFloat(0))
             /\ Val(resp'.num) # ParseFloat(0)
    ]_vars

WithdrawalsMayOverdrawWitness ==
    /\ resp.op = "getStudentBalance"
    /\ resp.error = NoError
    /\ Deposits({resp.args.id}) = 10
    /\ Withdrawals({resp.args.id}) = 30
    /\ Val(resp.num)[1] = -20

----------------------------------------------------------------------------
(* The balance, the ledger and the leaderboard side by side *)

(* C26: every active student has a row in the unlimited                 *)
(* getStudentLeaderboard(), whose current_balance is the number         *)
(* getStudentBalance returns for the student and whose                  *)
(* transaction_count is the number of transactions                      *)
(* getTransactionsByStudent returns for the student.                    *)
LeaderboardAgreesWithBalance ==
    (resp.op = "getStudentLeaderboard" /\ resp.args.limit = NULL)
    => \A s \in ActiveStudents :
          \E i \in RowIndex :
             /\ resp.rows[i].student_id = s
             /\ resp.rows[i].current_balance = StudentBalance(s)
             /\ \A q \in TransactionsByStudentResults(s) :
                   resp.rows[i].transaction_count = Len(q)

(* C27: every class has a row in the unlimited getClassLeaderboard(),   *)
(* whose total_deposits is the sum of total_deposits over the rows of   *)
(* getStudentLeaderboardByClass of that class and whose total_students  *)
(* is the number of those rows.                                         *)
ClassTotalsAreStudentTotals ==
    (resp.op = "getClassLeaderboard" /\ resp.args.limit = NULL)
    => \A c \in DOMAIN classes :
          \E i \in RowIndex :
             /\ resp.rows[i].class_id = c
             /\ \A q \in StudentLeaderboardByClassResults(c, NULL) :
                   /\ resp.rows[i].total_deposits
                         = ParseFloat(SumValues([j \in 1..Len(q) |->
                                                    Some(q[j].total_deposits[1])],
                                                1..Len(q)))
                   /\ resp.rows[i].total_students = Len(q)

ClassTotalsAreStudentTotalsWitness ==
    /\ resp.op = "getClassLeaderboard"
    /\ resp.args.limit = NULL
    /\ \E i \in RowIndex : /\ resp.rows[i].total_students = 2
                           /\ resp.rows[i].total_deposits = ParseFloat(40)
    /\ \A s \in {1, 2} : Deposits({s}) > 0

----------------------------------------------------------------------------
(* Two calls at once *)

RaceUpdates == {"updateClass", "updateTransaction", "updateStudentAspiration"}

(* the call of client c has returned or thrown *)
IsDone(c) == inflight[c].pc = "done"
Succeeded(c) == IsDone(c) /\ inflight[c].error = NoError

(* the call of client c writes a row that names the row id of the table *)
(* the delete operation del removes                                     *)
Names(c, del, id) ==
    LET call == inflight[c] IN
    CASE del = "deleteTeacher" ->
            \/ call.op = "createClass" /\ call.args.homeroom_teacher_id = Some(id)
            \/ /\ call.op = "updateClass"
               /\ call.args.homeroom_teacher_id # NULL
               /\ Val(call.args.homeroom_teacher_id) = Some(id)
      [] del = "deleteClass" -> call.op = "createStudent" /\ call.args.class_id = id
      [] del = "deleteStudent" ->
            /\ call.op \in {"createTransaction", "createStudentAspiration"}
            /\ call.args.student_id = id
      [] OTHER -> FALSE

(* C23: however the steps of a handler that looks a teacher, class or   *)
(* student up and then writes a row naming it interleave with a delete  *)
(* of that teacher, class or student, no state holds a row that names a *)
(* row that is gone, and the write and the delete do not both succeed.  *)
RacesKeepReferences ==
    /\ \A t \in DOMAIN transactions : transactions[t].student_id \in DOMAIN students
    /\ \A a \in DOMAIN aspirations : aspirations[a].student_id \in DOMAIN students
    /\ \A x \in DOMAIN students : students[x].class_id \in DOMAIN classes
    /\ \A k \in DOMAIN classes :
          classes[k].homeroom_teacher_id # NULL
          => Val(classes[k].homeroom_teacher_id) \in DOMAIN teachers
    /\ \A c, d \in Clients :
          (/\ inflight[d].op \in {"deleteTeacher", "deleteClass", "deleteStudent"}
           /\ Names(c, inflight[d].op, inflight[d].args.id))
          => ~(Succeeded(c) /\ Succeeded(d))

(* the insert came after the delete and the foreign key rejected it *)
RacesKeepReferencesWitness ==
    \E c, d \in Clients :
       /\ inflight[c].op = "createTransaction"
       /\ IsDone(c)
       /\ inflight[c].error.kind = "foreign_key"
       /\ inflight[d].op = "deleteStudent"
       /\ Succeeded(d)
       /\ 2 \notin DOMAIN students

(* C29: when the two clients call the same read-then-delete handler     *)
(* (deleteTransaction, deleteClass, deleteStudentAspiration) for the    *)
(* same id of a row that nothing refers to, exactly one call succeeds   *)
(* and the other fails with the not-found error, in every interleaving. *)
OneDeleteWins ==
    (/\ IsDone(1) /\ IsDone(2)
     /\ inflight[1].op \in {"deleteTransaction", "deleteClass", "deleteStudentAspiration"}
     /\ inflight[2].op = inflight[1].op
     /\ inflight[2].args = inflight[1].args
     /\ \A c \in Clients : inflight[c].error.kind # "foreign_key")
    => \E c \in Clients :
          /\ Succeeded(c)
          /\ \A d \in Clients \ {c} : inflight[d].error.kind = "not_found"

(* C30: the update statement of updateClass, updateTransaction or       *)
(* updateStudentAspiration, when the row is still there and the call    *)
(* succeeds, returns the row as the store holds it after the update;    *)
(* when the row was deleted after the handler's lookup the call fails   *)
(* with the not-found error.                                            *)
UpdatesReturnTheRowOrNotFound ==
    [][\A c \in Clients :
          (/\ inflight[c].op \in RaceUpdates
           /\ inflight[c].pc = "write"
           /\ inflight'[c].pc = "done")
          => LET id == inflight[c].args.id
                 after == inflight'[c]
             IN  IF id \in DOMAIN Rows(inflight[c].op)
                 THEN after.error = NoError
                      => after.rows =
                            CASE inflight[c].op = "updateClass" ->
                                    <<[id |-> id] @@ classes'[id]>>
                              [] inflight[c].op = "updateTransaction" ->
                                    <<Returned(id, transactions'[id])>>
                              [] OTHER ->
                                    <<ReturnedAspiration(id, aspirations'[id])>>
                 ELSE after.error.kind = "not_found"
    ]_vars

----------------------------------------------------------------------------
(* Reads *)

(* the reply holds the rows of a leaderboard cut off by a limit *)
IsCut(reply) == "limit" \in DOMAIN reply.args /\ Truthy(reply.args.limit)

(* C22, as stated: a read of the balance, report and leaderboard        *)
(* handlers changes no table, whether it returns or fails, and the same *)
(* read made twice on the same store returns the same reply.            *)
ReadsRepeatExactly ==
    [][resp'.op \in ReadOps
       => /\ store' = store
          /\ (resp.op = resp'.op /\ resp.args = resp'.args) => resp' = resp
    ]_vars

(* C22, amended: a read changes no table, whether it returns or fails,  *)
(* and the same read made twice on the same store gives the same error, *)
(* the same number and the same rows, in an order that may differ where *)
(* the query leaves it open; under a limit the kept rows have the same  *)
(* total_deposits, place by place.                                      *)
ReadsRepeatUpToOrder ==
    [][resp'.op \in ReadOps
       => /\ store' = store
          /\ (resp.op = resp'.op /\ resp.args = resp'.args)
             => /\ resp'.error = resp.error
                /\ resp'.num = resp.num
                /\ Len(resp'.rows) = Len(resp.rows)
                /\ IF IsCut(resp)
                   THEN \A i \in RowIndex :
                           resp'.rows[i].total_deposits = resp.rows[i].total_deposits
                   ELSE {resp'.rows[i] : i \in RowIndex} = RowSet
    ]_vars

(* a limit of one has cut a leaderboard of two students who are level *)
ReadsRepeatUpToOrderWitness ==
    /\ resp.op = "getStudentLeaderboard"
    /\ resp.args.limit = Some(1)
    /\ Len(resp.rows) = 1
    /\ Deposits({1}) = Deposits({2})
    /\ Deposits({1}) > 0

====
